---- MODULE Spec2Model ----
(***************************************************************************)
(* A model of the context-assembly and configuration core of the gork      *)
(* Discord bot: the per-guild settings store (serverConfig.ts), the flag   *)
(* registry and value coercion, the administrative command parser          *)
(* (commands.ts), the inline flag parser (flags.ts), the prompt builder    *)
(* (prompt.ts) and the messageCreate handler.                              *)
(*                                                                         *)
(* Text is modelled as a sequence of one-character strings, so that trim,  *)
(* toLowerCase, split, parseInt, parseFloat and the regular expressions    *)
(* are computed character by character, as the code computes them.         *)
(***************************************************************************)
EXTENDS Integers, Sequences, FiniteSets, TLC

VARIABLES
    disk,            \* serverConfig.json: [exists, servers]
    dflt,            \* the module-level object defaultConfig.servers
    budget,          \* I/O faults the environment may still inject
    ops,             \* store calls or commands made so far
    last,            \* the last store call or command and what it returned
    abs,             \* the abstract key-value map of the calls made so far
    pinned,          \* per (guild, key): the value of the last set whose write succeeded
    probe,           \* the last direct call of parseFlagValue and its outcome
    sanitizeCall,    \* the last direct call of sanitizePersonality and its result
    formatCall,      \* the last direct call of formatMessage and its result
    reply,           \* what the messageCreate handler did with the last message
    handlers,        \* the messageCreate handlers in flight, in the order of arrival
    message,         \* parseFlags: the argument messageContent
    flagsContent,    \* parseFlags: the content returned
    words,           \* parseFlags: messageContent.split(/\s+/)
    pc,              \* parseFlags: position in the function
    idx,             \* parseFlags: loop index of the running pass
    remainingWords,  \* parseFlags: output of the first pass
    finalWords,      \* parseFlags: output of the second pass
    flags,           \* parseFlags: the BotFlags being built
    remIdx,          \* for each remainingWords entry, its position in words
    finIdx           \* for each finalWords entry, its position in words

storeVars == <<disk, dflt, budget, ops, last, abs, pinned>>
flagVars == <<message, flagsContent, words, pc, idx, remainingWords, finalWords, flags, remIdx, finIdx>>
callVars == <<probe, sanitizeCall, formatCall, reply, handlers>>
vars == <<disk, dflt, budget, ops, last, abs, pinned, probe, sanitizeCall, formatCall, reply, handlers,
          message, flagsContent, words, pc, idx, remainingWords, finalWords, flags, remIdx, finIdx>>

(***************************************************************************)
(* Bounds of the model.                                                    *)
(***************************************************************************)
MaxFaults == 1
MaxOps == 3
MaxWords == 3
MaxLen == 3
MaxHandlers == 3

(***************************************************************************)
(* Characters and strings.                                                 *)
(***************************************************************************)
Upper == <<"A","B","C","D","E","F","G","H","I","J","K","L","M",
           "N","O","P","Q","R","S","T","U","V","W","X","Y","Z">>
Lower == <<"a","b","c","d","e","f","g","h","i","j","k","l","m",
           "n","o","p","q","r","s","t","u","v","w","x","y","z">>
Digits == <<"0","1","2","3","4","5","6","7","8","9">>

\* String.prototype.toLowerCase on one character (ASCII letters).
LowerOf == [c \in {Upper[i] : i \in 1..26} |-> Lower[CHOOSE i \in 1..26 : Upper[i] = c]]

LowerChar(c) == IF c \in DOMAIN LowerOf THEN LowerOf[c] ELSE c

ToLowerCase(s) == [i \in 1..Len(s) |-> LowerChar(s[i])]

\* The characters \s matches (those the model's texts contain).
IsSpace(c) == c \in {" ", "\n", "\t", "\r"}

IsDigit(c) == \E i \in 1..10 : Digits[i] = c

DigitVal(c) == (CHOOSE i \in 1..10 : Digits[i] = c) - 1

\* Number of leading whitespace characters of s.
LeadingSpaces(s) ==
    IF \A i \in 1..Len(s) : IsSpace(s[i]) THEN Len(s)
    ELSE (CHOOSE i \in 1..Len(s) : ~IsSpace(s[i]) /\ \A j \in 1..(i-1) : IsSpace(s[j])) - 1

TrailingSpaces(s) ==
    IF \A i \in 1..Len(s) : IsSpace(s[i]) THEN Len(s)
    ELSE Len(s) - (CHOOSE i \in 1..Len(s) : ~IsSpace(s[i]) /\ \A j \in (i+1)..Len(s) : IsSpace(s[j]))

\* String.prototype.trim
Trim(s) ==
    IF LeadingSpaces(s) = Len(s) THEN <<>>
    ELSE SubSeq(s, LeadingSpaces(s) + 1, Len(s) - TrailingSpaces(s))

\* String.prototype.startsWith
StartsWith(s, p) == Len(s) >= Len(p) /\ SubSeq(s, 1, Len(p)) = p

\* s.substring(from - 1): the suffix of s that starts at position from.
Suffix(s, from) == SubSeq(s, from, Len(s))

RECURSIVE Concat(_)
Concat(ss) == IF ss = <<>> THEN <<>> ELSE Head(ss) \o Concat(Tail(ss))

\* Array.prototype.join(' ')
RECURSIVE JoinSpace(_)
JoinSpace(ws) ==
    IF ws = <<>> THEN <<>>
    ELSE IF Len(ws) = 1 THEN ws[1]
    ELSE ws[1] \o <<" ">> \o JoinSpace(Tail(ws))

(***************************************************************************)
(* Setting values: boolean | number | string, and null, which is what a    *)
(* non-finite number becomes in the JSON document.  A finite number is     *)
(* n * 10^d with n not divisible by 10 (0 is n = 0, d = 0).                *)
(***************************************************************************)
JBool(b) == [t |-> "boolean", n |-> IF b THEN 1 ELSE 0, d |-> 0, s |-> <<>>]
JNum(n, d) == [t |-> "number", n |-> n, d |-> d, s |-> <<>>]
JInfinity(sign) == [t |-> "number", n |-> sign, d |-> 0, s |-> <<"Infinity">>]
JStr(s) == [t |-> "string", n |-> 0, d |-> 0, s |-> s]
JNull == [t |-> "null", n |-> 0, d |-> 0, s |-> <<>>]
\* The marker for `undefined` (an absent setting, or no default given).
Undefined == [t |-> "undefined", n |-> 0, d |-> 0, s |-> <<>>]

IsFinite(v) == v.t = "number" /\ v.s = <<>>

\* n * 10^d brought to the canonical form.
RECURSIVE Normalize(_, _)
Normalize(n, d) ==
    IF n = 0 THEN JNum(0, 0)
    ELSE IF n % 10 = 0 THEN Normalize(n \div 10, d + 1)
    ELSE JNum(n, d)

(***************************************************************************)
(* serverConfig.ts: the flag registry.                                     *)
(***************************************************************************)
kRunescape == <<"r", "u", "n", "e", "s", "c", "a", "p", "e">>
kContext == <<"c", "o", "n", "t", "e", "x", "t">>
kPersonality == <<"p", "e", "r", "s", "o", "n", "a", "l", "i", "t", "y">>

FLAG_TYPES == [k \in {kRunescape, kContext} |->
                 IF k = kRunescape THEN "boolean" ELSE "number"]

getFlagType(flagName) ==
    IF flagName \in DOMAIN FLAG_TYPES THEN FLAG_TYPES[flagName] ELSE "undefined"

BOOLEAN_TRUE_VALUES == {<<"t", "r", "u", "e">>, <<"1">>, <<"y", "e", "s">>, <<"o", "n">>}
BOOLEAN_FALSE_VALUES == {<<"f", "a", "l", "s", "e">>, <<"0">>, <<"n", "o">>, <<"o", "f", "f">>}

(***************************************************************************)
(* parseInt(s, 10) and parseFloat(s).  Both skip leading whitespace, read  *)
(* an optional sign and the longest prefix that is a numeral, and ignore   *)
(* whatever follows it; with no digit to read the result is NaN.           *)
(***************************************************************************)
JNaN == [t |-> "number", n |-> 0, d |-> 0, s |-> <<"NaN">>]

\* Length of the longest prefix of s made of decimal digits.
DigitPrefixLen(s) ==
    IF \A i \in 1..Len(s) : IsDigit(s[i]) THEN Len(s)
    ELSE (CHOOSE i \in 1..Len(s) : ~IsDigit(s[i]) /\ \A j \in 1..(i-1) : IsDigit(s[j])) - 1

RECURSIVE DigitsVal(_)
DigitsVal(ds) ==
    IF ds = <<>> THEN 0
    ELSE 10 * DigitsVal(SubSeq(ds, 1, Len(ds) - 1)) + DigitVal(ds[Len(ds)])

HasSign(s) == Len(s) > 0 /\ s[1] \in {"+", "-"}

\* s without its sign, and whether the sign is a minus.
Unsigned(s) == IF HasSign(s) THEN Tail(s) ELSE s
IsNegative(s) == HasSign(s) /\ s[1] = "-"

\* The integer that the digit prefix of body denotes, or NaN.
IntOfDigits(neg, body) ==
    IF DigitPrefixLen(body) = 0 THEN [nan |-> TRUE, val |-> 0]
    ELSE [nan |-> FALSE,
          val |-> IF neg THEN 0 - DigitsVal(SubSeq(body, 1, DigitPrefixLen(body)))
                  ELSE DigitsVal(SubSeq(body, 1, DigitPrefixLen(body)))]

IntOfTrimmed(t) == IntOfDigits(IsNegative(t), Unsigned(t))

\* parseInt(s, 10): [nan |-> TRUE] or [nan |-> FALSE, val |-> the integer].
parseInt(s) == IntOfTrimmed(Suffix(s, LeadingSpaces(s) + 1))

\* Number of decimal digits of n > 0.
RECURSIVE NumDigits(_)
NumDigits(n) == IF n < 10 THEN 1 ELSE 1 + NumDigits(n \div 10)

\* The largest double is about 1.8 * 10^308: a numeral of more than 309
\* integer digits overflows to Infinity.  (The numerals of the model stay
\* away from the boundary and from the 53-bit precision limit.)
Overflows(n, d) == n # 0 /\ NumDigits(n) + d > 309

kInfinity == <<"I", "n", "f", "i", "n", "i", "t", "y">>

\* mant * 10^d with the sign, as a double.
FloatValue(neg, mant, d) ==
    IF Overflows(mant, d) THEN JInfinity(IF neg THEN 0 - 1 ELSE 1)
    ELSE Normalize(IF neg THEN 0 - mant ELSE mant, d)

\* The value of an exponent part "e", sign, digits; 0 when r is none.
ExponentDigits(eneg, ebody) ==
    IF eneg THEN 0 - DigitsVal(SubSeq(ebody, 1, DigitPrefixLen(ebody)))
    ELSE DigitsVal(SubSeq(ebody, 1, DigitPrefixLen(ebody)))

Exponent(r) ==
    IF Len(r) > 1 /\ r[1] \in {"e", "E"}
    THEN ExponentDigits(IsNegative(Tail(r)), Unsigned(Tail(r)))
    ELSE 0

\* The digits before and after the point, and the text after them.
FloatOfParts(neg, intDigits, fracDigits, r) ==
    IF Len(intDigits) + Len(fracDigits) = 0 THEN JNaN
    ELSE FloatValue(neg, DigitsVal(intDigits \o fracDigits), Exponent(r) - Len(fracDigits))

\* r is the text after the integer digits.
FloatOfFraction(neg, intDigits, r) ==
    IF Len(r) > 0 /\ r[1] = "."
    THEN FloatOfParts(neg, intDigits, SubSeq(r, 2, DigitPrefixLen(Tail(r)) + 1),
                      Suffix(r, DigitPrefixLen(Tail(r)) + 2))
    ELSE FloatOfParts(neg, intDigits, <<>>, r)

FloatOfBody(neg, body) ==
    IF StartsWith(body, kInfinity) THEN JInfinity(IF neg THEN 0 - 1 ELSE 1)
    ELSE FloatOfFraction(neg, SubSeq(body, 1, DigitPrefixLen(body)),
                         Suffix(body, DigitPrefixLen(body) + 1))

FloatOfTrimmed(t) == FloatOfBody(IsNegative(t), Unsigned(t))

parseFloat(s) == FloatOfTrimmed(Suffix(s, LeadingSpaces(s) + 1))

\* isNaN
isNaN(v) == v = JNaN

(***************************************************************************)
(* serverConfig.ts: parseFlagValue.  The result is [ok |-> TRUE, value]    *)
(* or, for a thrown Error, [ok |-> FALSE, error, arg].                     *)
(***************************************************************************)
Thrown(kind, arg) == [ok |-> FALSE, value |-> Undefined, error |-> kind, arg |-> arg]
Returned(v) == [ok |-> TRUE, value |-> v, error |-> "none", arg |-> <<>>]

\* A parseBoolean that compares without toLowerCase.
parseBoolean_CaseSensitive(valueString) ==
    IF Trim(valueString) \in BOOLEAN_TRUE_VALUES THEN Returned(JBool(TRUE))
    ELSE IF Trim(valueString) \in BOOLEAN_FALSE_VALUES THEN Returned(JBool(FALSE))
    ELSE Thrown("InvalidBoolean", valueString)

parseBoolean(valueString) ==
    LET lowerValue == Trim(ToLowerCase(valueString))
    IN  IF lowerValue \in BOOLEAN_TRUE_VALUES THEN Returned(JBool(TRUE))
        ELSE IF lowerValue \in BOOLEAN_FALSE_VALUES THEN Returned(JBool(FALSE))
        ELSE Thrown("InvalidBoolean", valueString)

\* A parseNumber without the isNaN check.
parseNumber_NoNaNCheck(valueString) == Returned(parseFloat(Trim(valueString)))

parseNumber(valueString) ==
    LET numValue == parseFloat(Trim(valueString))
    IN  IF isNaN(numValue) THEN Thrown("InvalidNumber", valueString)
        ELSE Returned(numValue)

\* A parseFlagValue that takes an unregistered flag for a string flag.
parseFlagValue_NoRegistryCheck(flagName, valueString) ==
    IF getFlagType(flagName) = "boolean" THEN parseBoolean(valueString)
    ELSE IF getFlagType(flagName) = "number" THEN parseNumber(valueString)
    ELSE Returned(JStr(Trim(valueString)))

parseFlagValue(flagName, valueString) ==
    LET flagType == getFlagType(flagName)
    IN  IF flagType = "undefined" THEN Thrown("UnknownFlag", flagName)
        ELSE IF flagType = "boolean" THEN parseBoolean(valueString)
        ELSE IF flagType = "number" THEN parseNumber(valueString)
        ELSE Returned(JStr(Trim(valueString)))

(***************************************************************************)
(* The JSON document.  saveConfig writes JSON.stringify(config) and        *)
(* loadConfig reads it back with JSON.parse: a non-finite number is        *)
(* written as null, a property whose value is undefined is not written, a  *)
(* string is escaped and unescaped.                                        *)
(***************************************************************************)
JsonEscapeChar(c) ==
    IF c = "\"" THEN <<"\\", "\"">>
    ELSE IF c = "\\" THEN <<"\\", "\\">>
    ELSE IF c = "\n" THEN <<"\\", "n">>
    ELSE IF c = "\r" THEN <<"\\", "r">>
    ELSE IF c = "\t" THEN <<"\\", "t">>
    ELSE <<c>>

JsonEscape(s) == Concat([i \in 1..Len(s) |-> JsonEscapeChar(s[i])])

JsonUnescapeChar(c) ==
    IF c = "n" THEN "\n" ELSE IF c = "r" THEN "\r" ELSE IF c = "t" THEN "\t" ELSE c

RECURSIVE JsonUnescape(_)
JsonUnescape(s) ==
    IF s = <<>> THEN <<>>
    ELSE IF s[1] = "\\" /\ Len(s) > 1
         THEN <<JsonUnescapeChar(s[2])>> \o JsonUnescape(Suffix(s, 3))
    ELSE <<s[1]>> \o JsonUnescape(Tail(s))

\* JSON.parse(JSON.stringify(v)) for one value.
JsonValue(v) ==
    IF v.t = "number" /\ ~IsFinite(v) THEN JNull
    ELSE IF v.t = "string" THEN JStr(JsonUnescape(JsonEscape(v.s)))
    ELSE v

JsonSettings(settings) ==
    [k \in {x \in DOMAIN settings : settings[x] # Undefined} |-> JsonValue(settings[k])]

\* JSON.parse(JSON.stringify(config)).servers
JsonRoundTrip(servers) == [g \in DOMAIN servers |-> JsonSettings(servers[g])]

(***************************************************************************)
(* serverConfig.ts: the settings store.  `disk` is the file, `dflt` the    *)
(* object defaultConfig, which loadConfig returns itself (not a copy) when *)
(* the file is missing or cannot be read.  Each file access takes the      *)
(* outcome the environment gives it (ok = it succeeded).                   *)
(***************************************************************************)
EmptyMap == [x \in {} |-> x]

MapPut(f, x, y) == [z \in DOMAIN f \cup {x} |-> IF z = x THEN y ELSE f[z]]

MapRemove(f, x) == [z \in DOMAIN f \ {x} |-> f[z]]

File(servers) == [exists |-> TRUE, servers |-> servers]

NoFile == [exists |-> FALSE, servers |-> EmptyMap]

\* [config, alias, disk]: the object returned, whether it is defaultConfig
\* itself, and the file afterwards.
loadConfig(d, df, ok) ==
    IF ~d.exists
    THEN [config |-> df, alias |-> TRUE,
          disk |-> IF ok THEN File(JsonRoundTrip(df)) ELSE d]
    ELSE IF ok
    THEN [config |-> d.servers, alias |-> FALSE, disk |-> d]
    ELSE [config |-> df, alias |-> TRUE, disk |-> d]

saveConfig(d, config, ok) == IF ok THEN File(JsonRoundTrip(config)) ELSE d

\* config.servers[guildId] || {}
SettingsOf(config, guildId) ==
    IF guildId \in DOMAIN config THEN config[guildId] ELSE EmptyMap

\* [result, disk]
getServerSettings(d, df, guildId, ok) ==
    LET L == loadConfig(d, df, ok)
    IN  [result |-> SettingsOf(L.config, guildId), disk |-> L.disk]

\* settings[key] !== undefined ? settings[key] : defaultValue
getServerSetting(d, df, guildId, key, defaultValue, ok) ==
    LET R == getServerSettings(d, df, guildId, ok)
    IN  [result |-> IF key \in DOMAIN R.result /\ R.result[key] # Undefined
                    THEN R.result[key] ELSE defaultValue,
         disk |-> R.disk]

\* [disk, dflt] after the call.
setServerSetting(d, df, guildId, key, value, lok, sok) ==
    LET L == loadConfig(d, df, lok)
        c0 == IF guildId \in DOMAIN L.config THEN L.config
              ELSE MapPut(L.config, guildId, EmptyMap)
        c1 == [c0 EXCEPT ![guildId] = MapPut(c0[guildId], key, value)]
    IN  [disk |-> saveConfig(L.disk, c1, sok),
         dflt |-> IF L.alias THEN c1 ELSE df]

\* A removeServerSetting that saves without deleting the key.
removeServerSetting_NoDelete(d, df, guildId, key, lok, sok) ==
    [disk |-> saveConfig(loadConfig(d, df, lok).disk, loadConfig(d, df, lok).config, sok),
     dflt |-> df]

removeServerSetting(d, df, guildId, key, lok, sok) ==
    LET L == loadConfig(d, df, lok)
        c1 == [L.config EXCEPT ![guildId] = MapRemove(L.config[guildId], key)]
    IN  IF guildId \in DOMAIN L.config
        THEN [disk |-> saveConfig(L.disk, c1, sok),
              dflt |-> IF L.alias THEN c1 ELSE df]
        ELSE [disk |-> L.disk, dflt |-> df]

(***************************************************************************)
(* The store driven through its exported functions.                        *)
(***************************************************************************)
Guilds == {"g1", "g2"}
StoreKeys == {kContext, kRunescape}
\* Values the callers pass: parseFlagValue's results.
StoreValues == {JBool(TRUE), JNum(42, 0), JInfinity(1)}

\* The outcomes the environment may give one file access.
Outcomes == IF budget > 0 THEN BOOLEAN ELSE {TRUE}
Cost(ok) == IF ok THEN 0 ELSE 1

NoResp == [handled |-> FALSE, kind |-> "none", name |-> <<>>, type |-> "undefined",
           value |-> Undefined, list |-> EmptyMap]

Last(op, g, k, v, res, list, io) ==
    [op |-> op, g |-> g, k |-> k, v |-> v, res |-> res, list |-> list, io |-> io,
     resp |-> NoResp, content |-> <<>>]

NoPins == [p \in Guilds \X StoreKeys |-> Undefined]
NoAbs == [g \in Guilds |-> EmptyMap]

\* abs follows the calls as long as every file access has succeeded.
AbsAfter(b, a) == IF b = MaxFaults THEN a ELSE NoAbs

StoreGet(g, k) ==
    \E ok \in Outcomes :
        LET R == getServerSetting(disk, dflt, g, k, Undefined, ok)
        IN  /\ Cost(ok) <= budget
            /\ disk' = R.disk
            /\ budget' = budget - Cost(ok)
            /\ last' = Last("get", g, k, Undefined, R.result, EmptyMap, ok)
            /\ abs' = AbsAfter(budget', abs)
            /\ UNCHANGED <<dflt, pinned>>

StoreList(g) ==
    \E ok \in Outcomes :
        LET R == getServerSettings(disk, dflt, g, ok)
        IN  /\ Cost(ok) <= budget
            /\ disk' = R.disk
            /\ budget' = budget - Cost(ok)
            /\ last' = Last("list", g, <<>>, Undefined, Undefined, R.result, ok)
            /\ abs' = AbsAfter(budget', abs)
            /\ UNCHANGED <<dflt, pinned>>

StoreSet(g, k, v) ==
    \E lok \in Outcomes, sok \in Outcomes :
        LET R == setServerSetting(disk, dflt, g, k, v, lok, sok)
        IN  /\ Cost(lok) + Cost(sok) <= budget
            /\ disk' = R.disk
            /\ dflt' = R.dflt
            /\ budget' = budget - Cost(lok) - Cost(sok)
            /\ last' = Last("set", g, k, v, Undefined, EmptyMap, lok /\ sok)
            /\ abs' = AbsAfter(budget', [abs EXCEPT ![g] = MapPut(abs[g], k, v)])
            /\ pinned' = [pinned EXCEPT ![<<g, k>>] = IF sok THEN v ELSE Undefined]

\* The file is written only when the guild has an entry.
RemoveSaves(d, df, g, lok) == g \in DOMAIN loadConfig(d, df, lok).config

StoreRemove(g, k) ==
    \E lok \in Outcomes, sok \in Outcomes :
        LET R == removeServerSetting(disk, dflt, g, k, lok, sok)
        IN  /\ Cost(lok) + Cost(sok) <= budget
            /\ RemoveSaves(disk, dflt, g, lok) \/ sok
            /\ disk' = R.disk
            /\ dflt' = R.dflt
            /\ budget' = budget - Cost(lok) - Cost(sok)
            /\ last' = Last("remove", g, k, Undefined, Undefined, EmptyMap, lok /\ sok)
            /\ abs' = AbsAfter(budget', [abs EXCEPT ![g] = MapRemove(abs[g], k)])
            /\ pinned' = [pinned EXCEPT ![<<g, k>>] = Undefined]

NoProbe == [flagName |-> <<>>, token |-> <<>>, casing |-> "none", padding |-> "none",
            raw |-> <<>>, outcome |-> Returned(Undefined)]

NoSanitize == [raw |-> <<>>, result |-> <<>>, called |-> FALSE]

NoFormat == [message |-> <<>>, botUserId |-> "undefined", result |-> <<>>, called |-> FALSE]

NoMessage ==
    [guild |-> "none", mentioned |-> FALSE,
     author |-> [id |-> "0", bot |-> FALSE, username |-> <<>>],
     content |-> <<>>, users |-> <<>>, roles |-> <<>>, channels |-> <<>>]

\* stage: where the handler of the message stands (idle: it has returned);
\* kind: the reply it sent; the other fields are its local constants.
NoReply ==
    [stage |-> "idle", msg |-> NoMessage, raw |-> <<>>, kind |-> "none",
     serverContext |-> Undefined, limit |-> Undefined, history |-> <<>>,
     prompt |-> <<>>, model |-> "none", runescape |-> Undefined,
     personality |-> Undefined, previousMessages |-> <<>>]

\* A handler of SpecConc that has not started: stage is where it stands
\* ("new", the awaited call, "done"), kind the reply it sends, at the number
\* of the command it executed, views the settings its community has had
\* since it read the context setting.
NoHandler ==
    [stage |-> "new", raw |-> <<>>, guild |-> "none", kind |-> "none", at |-> 0,
     context |-> 20, advanced |-> FALSE, serverContext |-> Undefined, limit |-> Undefined,
     runescape |-> Undefined, personality |-> Undefined, views |-> {},
     bot |-> FALSE, mentioned |-> FALSE]

Handlers == 1..MaxHandlers

NoHandlers == [h \in Handlers |-> NoHandler]

FlagsIdle ==
    /\ probe = NoProbe
    /\ sanitizeCall = NoSanitize
    /\ formatCall = NoFormat
    /\ reply = NoReply
    /\ handlers = NoHandlers
    /\ message = <<>>
    /\ flagsContent = <<>>
    /\ words = <<>>
    /\ pc = "idle"
    /\ idx = 0
    /\ remainingWords = <<>>
    /\ finalWords = <<>>
    /\ flags = [advanced |-> FALSE, context |-> 20]
    /\ remIdx = <<>>
    /\ finIdx = <<>>

\* At start the file is missing or holds the empty document.
StoreInit ==
    /\ disk \in {NoFile, File(EmptyMap)}
    /\ dflt = EmptyMap
    /\ budget = MaxFaults
    /\ ops = 0
    /\ last = Last("none", "g1", <<>>, Undefined, Undefined, EmptyMap, TRUE)
    /\ abs = NoAbs
    /\ pinned = NoPins

InitStore == StoreInit /\ FlagsIdle

\* One more call, within the bound on the length of a run.
Step == ops < MaxOps /\ ops' = ops + 1

NextStore ==
    \/ \E g \in Guilds, k \in StoreKeys : Step /\ StoreGet(g, k) /\ UNCHANGED <<flagVars, callVars>>
    \/ \E g \in Guilds : Step /\ StoreList(g) /\ UNCHANGED <<flagVars, callVars>>
    \/ \E g \in Guilds, k \in StoreKeys, v \in StoreValues : Step /\ StoreSet(g, k, v) /\ UNCHANGED <<flagVars, callVars>>
    \/ \E g \in Guilds, k \in StoreKeys : Step /\ StoreRemove(g, k) /\ UNCHANGED <<flagVars, callVars>>

SpecStore == InitStore /\ [][NextStore]_vars

(***************************************************************************)
(* commands.ts: the regular expressions of handleServerConfigCommand.      *)
(* A match is the leftmost one; + and * are greedy and backtrack.          *)
(***************************************************************************)
Min(S) == CHOOSE x \in S : \A y \in S : x <= y
Max(S) == CHOOSE x \in S : \A y \in S : x >= y

\* Positions where the literal pat occurs in s, ignoring case (the /i flag).
Starts(s, pat) ==
    {p \in 1..(Len(s) - Len(pat) + 1) :
        ToLowerCase(SubSeq(s, p, p + Len(pat) - 1)) = ToLowerCase(pat)}

\* Position of the first double quote of s at or after q (0: none).
FirstQuoteFrom(s, q) ==
    IF \E e \in q..Len(s) : s[e] = "\"" THEN Min({e \in q..Len(s) : s[e] = "\""}) ELSE 0

NoMatch == [matched |-> FALSE, g1 |-> <<>>, g2 |-> <<>>]

\* /<pat>([^"]+)"/i, where pat ends with the opening quote.
MatchQuoted(s, pat) ==
    LET hits == {p \in Starts(s, pat) : FirstQuoteFrom(s, p + Len(pat)) > p + Len(pat)}
        q == Min(hits) + Len(pat)
    IN  IF hits = {} THEN NoMatch
        ELSE [matched |-> TRUE, g1 |-> SubSeq(s, q, FirstQuoteFrom(s, q) - 1), g2 |-> <<>>]

pSetFlag == <<"-", "-", "s", "e", "t", "F", "l", "a", "g", "=", "\"">>
pGetFlag == <<"-", "-", "g", "e", "t", "F", "l", "a", "g", "=", "\"">>
pListFlags == <<"-", "-", "l", "i", "s", "t", "F", "l", "a", "g", "s">>
pRemoveFlag == <<"-", "-", "r", "e", "m", "o", "v", "e", "F", "l", "a", "g", "=", "\"">>
pSetPersonality == <<"-", "-", "s", "e", "t", "P", "e", "r", "s", "o", "n", "a", "l", "i", "t", "y">>

\* The colons that can end group 1 of the setFlag pattern, for the quoted
\* text s[q..e-1]: one character at least before and after the colon.
Colons(s, q, e) == {c \in (q + 1)..(e - 2) : s[c] = ":"}

\* /--setFlag="([^"]+):\s*([^"]+)"/i : group 1 runs to the last colon, \s*
\* takes the whitespace after it but leaves group 2 one character.
MatchSetFlag(s) ==
    LET hits == {p \in Starts(s, pSetFlag) :
                    Colons(s, p + Len(pSetFlag), FirstQuoteFrom(s, p + Len(pSetFlag))) # {}}
        q == Min(hits) + Len(pSetFlag)
        e == FirstQuoteFrom(s, q)
        c == Max(Colons(s, q, e))
        rest == SubSeq(s, c + 1, e - 1)
    IN  IF hits = {} THEN NoMatch
        ELSE [matched |-> TRUE,
              g1 |-> SubSeq(s, q, c - 1),
              g2 |-> IF LeadingSpaces(rest) = Len(rest) THEN <<rest[Len(rest)]>>
                     ELSE Suffix(rest, LeadingSpaces(rest) + 1)]

\* The characters . does not match.
LineTerminator(c) == c \in {"\n", "\r"}

\* Lengths \s+ can take at position q so that (.+) still has a character.
SpaceRuns(s, q) ==
    {n \in 1..LeadingSpaces(Suffix(s, q)) : q + n <= Len(s) /\ ~LineTerminator(s[q + n])}

\* Last position of the line that position from is on.
EndOfLine(s, from) ==
    IF \E i \in from..Len(s) : LineTerminator(s[i])
    THEN Min({i \in from..Len(s) : LineTerminator(s[i])}) - 1
    ELSE Len(s)

\* /--setPersonality\s+(.+)/i
MatchSetPersonality(s) ==
    LET hits == {p \in Starts(s, pSetPersonality) : SpaceRuns(s, p + Len(pSetPersonality)) # {}}
        q == Min(hits) + Len(pSetPersonality)
        from == q + Max(SpaceRuns(s, q))
    IN  IF hits = {} THEN NoMatch
        ELSE [matched |-> TRUE, g1 |-> SubSeq(s, from, EndOfLine(s, from)), g2 |-> <<>>]

(***************************************************************************)
(* commands.ts: handleServerConfigCommand.  A response is the template     *)
(* used (kind) and what is filled into it.  oks are the outcomes of the    *)
(* file accesses the command makes, in order.  The result is               *)
(* [resp, disk, dflt, op, k].                                              *)
(***************************************************************************)
NoGuild == "none"

\* What the branch of a matched pattern computes from the groups before it
\* touches the store: the trimmed flag name, parseFlagValue's result, the
\* trimmed personality text.
Matched(op, m) ==
    [op |-> op,
     flagName |-> IF op \in {"setFlag", "getFlag", "removeFlag"} THEN Trim(m.g1) ELSE <<>>,
     parsed |-> IF op = "setFlag" THEN parseFlagValue(Trim(m.g1), Trim(m.g2))
                ELSE Returned(Undefined),
     personalityText |-> IF op = "setPersonality" THEN Trim(m.g1) ELSE <<>>]

\* The patterns are tried in the order of the code; the first match wins.
MatchCommand(content) ==
    IF MatchSetFlag(content).matched THEN Matched("setFlag", MatchSetFlag(content))
    ELSE IF MatchQuoted(content, pGetFlag).matched
    THEN Matched("getFlag", MatchQuoted(content, pGetFlag))
    ELSE IF Starts(content, pListFlags) # {} THEN Matched("listFlags", NoMatch)
    ELSE IF MatchQuoted(content, pRemoveFlag).matched
    THEN Matched("removeFlag", MatchQuoted(content, pRemoveFlag))
    ELSE IF MatchSetPersonality(content).matched
    THEN Matched("setPersonality", MatchSetPersonality(content))
    ELSE Matched("none", NoMatch)

Resp(kind, name, type, value, list) ==
    [handled |-> TRUE, kind |-> kind, name |-> name, type |-> type,
     value |-> value, list |-> list]

\* used: the number of file accesses the command made.
Handled(op, k, resp, d, df, used) ==
    [op |-> op, k |-> k, resp |-> resp, disk |-> d, dflt |-> df, used |-> used]

\* --setFlag="flagName: value"
HandleSetFlag(d, df, guildId, m, oks) ==
    LET flagName == m.flagName
        P == m.parsed
        S == setServerSetting(d, df, guildId, flagName, P.value, oks[1], oks[2])
    IN  IF P.ok
        THEN Handled("setFlag", flagName,
                     Resp("setOk", flagName, getFlagType(flagName), JsonValue(P.value), EmptyMap),
                     S.disk, S.dflt, 2)
        ELSE Handled("setFlag", flagName,
                     Resp(P.error, P.arg, "undefined", Undefined, EmptyMap), d, df, 0)

\* --getFlag="flagName"
HandleGetFlag(d, df, guildId, m, oks) ==
    LET flagName == m.flagName
        G == getServerSetting(d, df, guildId, flagName, Undefined, oks[1])
    IN  Handled("getFlag", flagName,
                Resp(IF G.result = Undefined THEN "notSet" ELSE "value",
                     flagName, getFlagType(flagName), JsonValue(G.result), EmptyMap),
                G.disk, df, 1)

\* --listFlags
HandleListFlags(d, df, guildId, oks) ==
    LET G == getServerSettings(d, df, guildId, oks[1])
    IN  Handled("listFlags", <<>>,
                Resp(IF DOMAIN G.result = {} THEN "noFlags" ELSE "list",
                     <<>>, "undefined", Undefined, JsonSettings(G.result)),
                G.disk, df, 1)

\* --removeFlag="flagName"
HandleRemoveFlag(d, df, guildId, m, oks) ==
    LET flagName == m.flagName
        G == getServerSetting(d, df, guildId, flagName, Undefined, oks[1])
        existed == G.result # Undefined
        R == removeServerSetting(G.disk, df, guildId, flagName, oks[2], oks[3])
    IN  Handled("removeFlag", flagName,
                Resp(IF existed THEN "removed" ELSE "wasNotSet",
                     flagName, "undefined", Undefined, EmptyMap),
                R.disk, R.dflt,
                IF RemoveSaves(G.disk, df, guildId, oks[2]) THEN 3 ELSE 2)

\* --setPersonality <text>
HandleSetPersonality(d, df, guildId, m, oks) ==
    LET personalityText == m.personalityText
        S == setServerSetting(d, df, guildId, kPersonality, JStr(personalityText), oks[1], oks[2])
    IN  IF personalityText = <<>>
        THEN Handled("setPersonality", kPersonality,
                     Resp("emptyPersonality", <<>>, "undefined", Undefined, EmptyMap), d, df, 0)
        ELSE Handled("setPersonality", kPersonality,
                     Resp("personalitySet", <<>>, "undefined", JStr(personalityText), EmptyMap),
                     S.disk, S.dflt, 2)

\* A handleServerConfigCommand without the test of message.guild.
handleServerConfigCommand_NoGuildCheck(d, df, guildId, m, oks) ==
    IF m.op = "setFlag" THEN HandleSetFlag(d, df, guildId, m, oks)
    ELSE IF m.op = "getFlag" THEN HandleGetFlag(d, df, guildId, m, oks)
    ELSE IF m.op = "listFlags" THEN HandleListFlags(d, df, guildId, oks)
    ELSE IF m.op = "removeFlag" THEN HandleRemoveFlag(d, df, guildId, m, oks)
    ELSE IF m.op = "setPersonality" THEN HandleSetPersonality(d, df, guildId, m, oks)
    ELSE Handled("none", <<>>, NoResp, d, df, 0)

\* m is MatchCommand(content).
handleServerConfigCommand(d, df, guildId, m, oks) ==
    IF guildId = NoGuild THEN Handled("none", <<>>, NoResp, d, df, 0)
    ELSE IF m.op = "setFlag" THEN HandleSetFlag(d, df, guildId, m, oks)
    ELSE IF m.op = "getFlag" THEN HandleGetFlag(d, df, guildId, m, oks)
    ELSE IF m.op = "listFlags" THEN HandleListFlags(d, df, guildId, oks)
    ELSE IF m.op = "removeFlag" THEN HandleRemoveFlag(d, df, guildId, m, oks)
    ELSE IF m.op = "setPersonality" THEN HandleSetPersonality(d, df, guildId, m, oks)
    ELSE Handled("none", <<>>, NoResp, d, df, 0)

(***************************************************************************)
(* The store driven by the commands of chat messages.                      *)
(***************************************************************************)
SetFlagText(name, raw) == pSetFlag \o name \o <<":", " ">> \o raw \o <<"\"">>
GetFlagText(name) == pGetFlag \o name \o <<"\"">>
RemoveFlagText(name) == pRemoveFlag \o name \o <<"\"">>

vTrue == <<"t", "r", "u", "e">>
vOff == <<"o", "f", "f">>
vMaybe == <<"m", "a", "y", "b", "e">>
v42 == <<"4", "2">>
vAbc == <<"a", "b", "c">>
vBeNice == <<"B", "e", " ", "n", "i", "c", "e">>
vHello == <<"h", "e", "l", "l", "o">>

\* setFlag commands the parser must accept.
GoodSetFlags ==
    {SetFlagText(kRunescape, vTrue), SetFlagText(kRunescape, vOff),
     SetFlagText(kContext, v42), SetFlagText(kContext, kInfinity)}

\* setFlag commands with a value of the wrong type.
InvalidSetFlags == {SetFlagText(kRunescape, vMaybe), SetFlagText(kContext, vAbc)}

\* setFlag commands that name no registered flag.
UnknownSetFlags == {SetFlagText(kPersonality, vHello)}

GetFlags == {GetFlagText(kContext), GetFlagText(kRunescape), GetFlagText(kPersonality)}

RemoveFlags == {RemoveFlagText(kContext), RemoveFlagText(kPersonality)}

OtherTexts == {pListFlags, pSetPersonality \o <<" ">> \o vBeNice, vHello}

Contents ==
    GoodSetFlags \cup InvalidSetFlags \cup UnknownSetFlags \cup GetFlags
        \cup RemoveFlags \cup OtherTexts

\* setPersonality commands: the keyword, one space, the remainder.
PersonalityText(remainder) == pSetPersonality \o <<" ">> \o remainder

vTwoLines == <<"B", "e", " ", "n", "i", "c", "e", "\n", "B", "e", " ", "k", "i", "n", "d">>

\* Remainders that are not empty after trimming.
Remainders == {vBeNice, vTwoLines, <<" ">> \o vHello}

\* The bare keyword, and the keyword followed by blanks only.
EmptyPersonalityTexts == {pSetPersonality, PersonalityText(<<" ">>)}

\* Texts that match several patterns, with the command that comes first in
\* the order of the code and the key that command is about.
SeveralCommands ==
    {[text |-> RemoveFlagText(kContext) \o <<" ">> \o SetFlagText(kRunescape, vTrue),
      op |-> "setFlag", k |-> kRunescape],
     [text |-> SetFlagText(kContext, vAbc) \o <<" ">> \o RemoveFlagText(kContext),
      op |-> "setFlag", k |-> kContext],
     [text |-> RemoveFlagText(kContext) \o <<" ">> \o GetFlagText(kContext),
      op |-> "getFlag", k |-> kContext],
     [text |-> PersonalityText(vBeNice) \o <<" ">> \o pListFlags,
      op |-> "listFlags", k |-> <<>>],
     [text |-> PersonalityText(vBeNice) \o <<" ">> \o RemoveFlagText(kContext),
      op |-> "removeFlag", k |-> kContext]}

DispatchTexts ==
    {c.text : c \in SeveralCommands}
        \cup {PersonalityText(r) : r \in Remainders} \cup EmptyPersonalityTexts
        \cup {SetFlagText(kContext, v42), GetFlagText(kPersonality), vHello}

\* The backtick character (U+0060), which a TLA+ string cannot hold.
Backtick == "grave"

vHi == <<"h", "i">>

\* Commands that change what the handler puts into the prompt and how much
\* history it asks for.
SettingTexts ==
    {SetFlagText(kRunescape, vTrue), SetFlagText(kContext, v42),
     SetFlagText(kContext, <<"0">>),
     SetFlagText(kContext, kInfinity), PersonalityText(vBeNice),
     PersonalityText(<<Backtick, Backtick, Backtick>>)}

\* Messages for the model, with and without inline directives.
ChatTexts ==
    {vHello,
     <<"-", "-", "c", "o", "n", "t", "e", "x", "t", "=", "1", " ", "h", "e", "l", "l", "o">>,
     <<"-", "a", " ", "-", "c", " ", "1", "5", "0", " ", "h", "i">>,
     <<"-", "-", "c", "o", "n", "t", "e", "x", "t", "=", "5", "a", "b", "c", " ", "h", "i">>,
     <<"-", "-", "a", "d", "v", "a", "n", "c", "e", "d">>}

\* A command that is answered with an error.
RejectedTexts == {SetFlagText(kContext, vAbc)}

MsgTexts == SettingTexts \cup RejectedTexts \cup ChatTexts

\* The match of each text of the model.
CommandTable == [c \in Contents \cup DispatchTexts \cup MsgTexts |-> MatchCommand(c)]

Command(g, content) ==
    \E oks \in [1..3 -> Outcomes] :
      \E H \in {handleServerConfigCommand(disk, dflt, g, CommandTable[content], oks)} :
            /\ ops < MaxOps
            /\ Cost(oks[1]) + Cost(oks[2]) + Cost(oks[3]) <= budget
            /\ \A i \in 1..3 : i > H.used => oks[i]
            /\ disk' = H.disk
            /\ dflt' = H.dflt
            /\ budget' = budget - Cost(oks[1]) - Cost(oks[2]) - Cost(oks[3])
            /\ last' = [op |-> H.op, g |-> g, k |-> H.k, v |-> Undefined,
                        res |-> Undefined, list |-> EmptyMap,
                        io |-> oks[1] /\ oks[2] /\ oks[3],
                        resp |-> H.resp, content |-> content]
            /\ UNCHANGED <<abs, pinned>>

InitCmd == StoreInit /\ FlagsIdle

NextCmd == \E g \in Guilds, content \in Contents : Step /\ Command(g, content) /\ UNCHANGED <<flagVars, callVars>>

SpecCmd == InitCmd /\ [][NextCmd]_vars

\* Messages from a guild or from a direct message, with texts that match
\* several patterns, one pattern or none.
NextDispatch ==
    \E g \in Guilds \cup {NoGuild}, content \in DispatchTexts :
        Step /\ Command(g, content) /\ UNCHANGED <<flagVars, callVars>>

SpecDispatch == InitCmd /\ [][NextDispatch]_vars

(***************************************************************************)
(* Direct calls of parseFlagValue.  The raw string of a call is a token in *)
(* one of three casings with one of four paddings.                         *)
(***************************************************************************)
UpperOf == [c \in {Lower[i] : i \in 1..26} |-> Upper[CHOOSE i \in 1..26 : Lower[i] = c]]

UpperChar(c) == IF c \in DOMAIN UpperOf THEN UpperOf[c] ELSE c

ToUpperCase(s) == [i \in 1..Len(s) |-> UpperChar(s[i])]

Casings == {"lower", "upper", "capital"}

Cased(c, tok) ==
    IF c = "upper" THEN ToUpperCase(tok)
    ELSE IF c = "capital" /\ tok # <<>> THEN <<UpperChar(tok[1])>> \o Tail(tok)
    ELSE tok

Paddings == {"none", "left", "right", "both"}

Padded(p, s) ==
    IF p = "left" THEN <<" ">> \o s
    ELSE IF p = "right" THEN s \o <<" ", "\t">>
    ELSE IF p = "both" THEN <<"\t", " ">> \o s \o <<" ">>
    ELSE s

\* Strings that are no token of either boolean list.
OtherTokens ==
    {<<"m", "a", "y", "b", "e">>, <<"t", "r", "u">>, <<"y", "e", "s", "s">>,
     <<"o", " ", "n">>, <<"e", "n", "a", "b", "l", "e", "d">>, <<"1", "0">>,
     <<"2">>, <<"y">>, <<>>}

ProbeTokens == BOOLEAN_TRUE_VALUES \cup BOOLEAN_FALSE_VALUES \cup OtherTokens

ProbeNames == {kRunescape, kContext, kPersonality}

\* One call parseFlagValue(flagName, raw).
Coerce(flagName, tok, c, p) ==
    /\ probe' = [flagName |-> flagName, token |-> tok, casing |-> c, padding |-> p,
                 raw |-> Padded(p, Cased(c, tok)),
                 outcome |-> parseFlagValue(flagName, Padded(p, Cased(c, tok)))]
    /\ UNCHANGED <<storeVars, flagVars, sanitizeCall, formatCall, reply, handlers>>

InitCoerce == StoreInit /\ disk = NoFile /\ FlagsIdle

NextCoerce ==
    \E flagName \in ProbeNames, tok \in ProbeTokens, c \in Casings, p \in Paddings :
        Coerce(flagName, tok, c, p)

SpecCoerce == InitCoerce /\ [][NextCoerce]_vars

(***************************************************************************)
(* prompt.ts: sanitizePersonality, called directly on the strings of up to *)
(* MaxLen characters over an alphabet with every character it treats.      *)
(***************************************************************************)
\* personality.replace(/\\/g, '\\\\').replace(/"/g, '\\"')
EscapeChar(c) ==
    IF c = "\\" THEN <<"\\", "\\">> ELSE IF c = "\"" THEN <<"\\", "\"">> ELSE <<c>>

Escape(s) == Concat([i \in 1..Len(s) |-> EscapeChar(s[i])])

\* sanitized.replace(/\n/g, ' ').replace(/\r/g, '')
NewlineChar(c) == IF c = "\n" THEN <<" ">> ELSE IF c = "\r" THEN <<>> ELSE <<c>>

ReplaceNewlines(s) == Concat([i \in 1..Len(s) |-> NewlineChar(s[i])])

\* sanitized.replace(/\s+/g, ' '): a whitespace character becomes a space
\* if it starts a run and nothing otherwise.
CollapseSpaces(s) ==
    Concat([i \in 1..Len(s) |->
        IF ~IsSpace(s[i]) THEN <<s[i]>>
        ELSE IF i > 1 /\ IsSpace(s[i-1]) THEN <<>>
        ELSE <<" ">>])

\* A sanitizePersonality that escapes nothing.
sanitizePersonality_NoEscape(personality) ==
    Trim(CollapseSpaces(ReplaceNewlines(personality)))

sanitizePersonality(personality) ==
    Trim(CollapseSpaces(ReplaceNewlines(Escape(personality))))

Alphabet == {"a", " ", "\n", "\r", "\t", "\"", "\\", Backtick}

Strings == UNION {[1..n -> Alphabet] : n \in 0..MaxLen}

\* One call per run: the function keeps no state between calls.
Sanitize(personality) ==
    /\ ~sanitizeCall.called
    /\ sanitizeCall' = [raw |-> personality, result |-> sanitizePersonality(personality),
                        called |-> TRUE]
    /\ UNCHANGED <<storeVars, flagVars, probe, formatCall, reply, handlers>>

InitSanitize == StoreInit /\ disk = NoFile /\ FlagsIdle

NextSanitize == \E personality \in Strings : Sanitize(personality)

SpecSanitize == InitSanitize /\ [][NextSanitize]_vars

(***************************************************************************)
(* prompt.ts: the rendering of a message.  A message is                    *)
(* [author |-> [id, bot, username], content, users, roles, channels]; the  *)
(* last three are message.mentions, each a sequence of [id, name] in       *)
(* iteration order.  An id is one character.  botUserId is a user id, or   *)
(* NoUser when client.user is not set.                                     *)
(***************************************************************************)
NoUser == "undefined"

kYou == <<"_", "Y", "O", "U", "_">>

\* content.replace(new RegExp(pattern, 'g'), rep), the pattern given as the
\* set of the strings it matches.
RECURSIVE ReplaceAll(_, _, _)
ReplaceAll(s, pats, rep) ==
    IF s = <<>> THEN <<>>
    ELSE IF \E q \in pats : StartsWith(s, q)
    THEN rep \o ReplaceAll(Suffix(s, Len(CHOOSE q \in pats : StartsWith(s, q)) + 1), pats, rep)
    ELSE <<s[1]>> \o ReplaceAll(Tail(s), pats, rep)

\* <@!?id>
UserPattern(id) == {<<"<", "@", id, ">">>, <<"<", "@", "!", id, ">">>}
\* <@&id>
RolePattern(id) == {<<"<", "@", "&", id, ">">>}
\* <#id>
ChannelPattern(id) == {<<"<", "#", id, ">">>}

kChannel == <<"c", "h", "a", "n", "n", "e", "l">>

\* The loop over message.mentions.users.
RECURSIVE ReplaceUsers(_, _, _)
ReplaceUsers(content, users, botUserId) ==
    IF users = <<>> THEN content
    ELSE ReplaceUsers(
            ReplaceAll(content, UserPattern(users[1].id),
                       IF botUserId # NoUser /\ users[1].id = botUserId
                       THEN <<"@">> \o kYou ELSE <<"@">> \o users[1].name),
            Tail(users), botUserId)

\* The loop over message.mentions.roles.
RECURSIVE ReplaceRoles(_, _)
ReplaceRoles(content, roles) ==
    IF roles = <<>> THEN content
    ELSE ReplaceRoles(ReplaceAll(content, RolePattern(roles[1].id), <<"@">> \o roles[1].name),
                      Tail(roles))

\* The loop over message.mentions.channels; a channel without a name has
\* name = <<>> here and is shown as 'channel'.
RECURSIVE ReplaceChannels(_, _)
ReplaceChannels(content, channels) ==
    IF channels = <<>> THEN content
    ELSE ReplaceChannels(
            ReplaceAll(content, ChannelPattern(channels[1].id),
                       <<"#">> \o (IF channels[1].name # <<>> THEN channels[1].name ELSE kChannel)),
            Tail(channels))

replaceMentions(msg, botUserId) ==
    Trim(ReplaceChannels(ReplaceRoles(ReplaceUsers(msg.content, msg.users, botUserId), msg.roles),
                         msg.channels))

\* A label that tests the bot flag before the author's id.
AuthorName_BotFlagFirst(author, botUserId) ==
    IF author.bot THEN <<"B", "o", "t", " ", "(">> \o author.username \o <<")">>
    ELSE IF botUserId # NoUser /\ author.id = botUserId THEN kYou
    ELSE author.username

\* The author label of formatMessage and of buildPrompt.
AuthorName(author, botUserId) ==
    IF botUserId # NoUser /\ author.id = botUserId THEN kYou
    ELSE IF author.bot THEN <<"B", "o", "t", " ", "(">> \o author.username \o <<")">>
    ELSE author.username

formatMessage(msg, botUserId) ==
    AuthorName(msg.author, botUserId) \o <<":", " ">> \o replaceMentions(msg, botUserId)

\* The users, roles and channels the texts of the model mention.
BotId == "1"
kGork == <<"g", "o", "r", "k">>
kAnn == <<"a", "n", "n">>
Authors ==
    {[id |-> BotId, bot |-> TRUE, username |-> kGork],
     [id |-> BotId, bot |-> FALSE, username |-> kGork],
     [id |-> "2", bot |-> FALSE, username |-> kAnn],
     [id |-> "2", bot |-> TRUE, username |-> kAnn],
     [id |-> "3", bot |-> TRUE, username |-> <<"r", "s", "s">>],
     [id |-> "3", bot |-> FALSE, username |-> <<"r", "s", "s">>]}

Mentioning(content, users, roles, channels) ==
    [content |-> content, users |-> users, roles |-> roles, channels |-> channels]

uGork == [id |-> BotId, name |-> kGork]
uAnn == [id |-> "2", name |-> kAnn]

Bodies ==
    {Mentioning(<<"h", "e", "l", "l", "o">>, <<>>, <<>>, <<>>),
     Mentioning(<<>>, <<>>, <<>>, <<>>),
     Mentioning(<<" ", " ", "p", "a", "d", "d", "e", "d", "\n">>, <<>>, <<>>, <<>>),
     Mentioning(<<" ", "\t">>, <<>>, <<>>, <<>>),
     Mentioning(<<"h", "i", " ", "<", "@", "1", ">", " ", "t", "h", "e", "r", "e">>,
                <<uGork>>, <<>>, <<>>),
     Mentioning(<<" ", "<", "@", "!", "1", ">", " ", "h", "i", " ", "<", "@", "2", ">", " ">>,
                <<uGork, uAnn>>, <<>>, <<>>),
     Mentioning(<<"h", "i", " ", "<", "@", "1", ">", "<", "@", "1", ">">>, <<uGork>>, <<>>, <<>>),
     Mentioning(<<"s", "e", "e", " ", "<", "#", "7", ">", " ", "<", "@", "&", "5", ">">>,
                <<>>, <<[id |-> "5", name |-> <<"d", "e", "v", "s">>]>>,
                <<[id |-> "7", name |-> <<>>]>>),
     Mentioning(<<"<", "#", "7", ">", " ">>, <<>>, <<>>,
                <<[id |-> "7", name |-> <<"g", "e", "n", "e", "r", "a", "l">>]>>)}

MessageOf(author, body) ==
    [author |-> author, content |-> body.content, users |-> body.users,
     roles |-> body.roles, channels |-> body.channels]

\* One call formatMessage(msg, botUserId).
Format(msg, botUserId) ==
    /\ formatCall' = [message |-> msg, botUserId |-> botUserId,
                      result |-> formatMessage(msg, botUserId), called |-> TRUE]
    /\ UNCHANGED <<storeVars, flagVars, probe, sanitizeCall, reply, handlers>>

InitFormat == StoreInit /\ disk = NoFile /\ FlagsIdle

NextFormat ==
    \E author \in Authors, body \in Bodies, botUserId \in {BotId, NoUser} :
        Format(MessageOf(author, body), botUserId)

SpecFormat == InitFormat /\ [][NextFormat]_vars

(***************************************************************************)
(* prompt.ts: buildPrompt.  The fixed paragraphs of the prompt are one     *)
(* element each; what is filled into them is text, character by character. *)
(***************************************************************************)
kSystemPrompt == "You are a helpful and friendly chatbot assistant ... (most recent messages at the end):\n\n"
kTaggedBy == "You have been tagged/mentioned by "
kTheirMessageIs == ". \nTheir message is: \""
kPleaseRespond == "\"\n\nPlease respond naturally ... You should respond directly to "
kJustResponse == "'s message.\n\nIMPORTANT: ... Do not include an author specifier/prefix in your response."
kRunescapeMode == "ADDITIONAL CONTEXT - Runescape Mode: ... accurate and factually correct."
kPersonalityHeader == "=== PERSONALITY INSTRUCTIONS ==="
kPersonalityRules == "The following text describes ... The personality text is:"
kPersonalityEnd == "=== END PERSONALITY INSTRUCTIONS ==="
Fence == <<Backtick, Backtick, Backtick>>

\* Array.prototype.join('\n')
RECURSIVE JoinLines(_)
JoinLines(ls) ==
    IF ls = <<>> THEN <<>>
    ELSE IF Len(ls) = 1 THEN ls[1]
    ELSE ls[1] \o <<"\n">> \o JoinLines(Tail(ls))

\* The value is truthy in JavaScript.
Truthy(v) ==
    IF v.t = "boolean" \/ v.t = "number" THEN v.n # 0
    ELSE IF v.t = "string" THEN v.s # <<>>
    ELSE FALSE

\* a ?? b
Coalesce(a, b) == IF a.t \in {"null", "undefined"} THEN b ELSE a

\* [result, disk]; no read of the store outside a guild.
isFlagEnabled(d, df, guildId, flagName, ok) ==
    IF guildId = NoGuild THEN [result |-> JBool(FALSE), disk |-> d]
    ELSE [result |-> Coalesce(getServerSetting(d, df, guildId, flagName, JBool(FALSE), ok).result,
                              JBool(FALSE)),
          disk |-> getServerSetting(d, df, guildId, flagName, JBool(FALSE), ok).disk]

HistorySection(messageHistory, botUserId) ==
    IF Len(messageHistory) > 0
    THEN JoinLines([i \in 1..Len(messageHistory) |-> formatMessage(messageHistory[i], botUserId)])
            \o <<"\n", "\n">>
    ELSE <<>>

\* contentOverride replaces the content when it is not empty.
CurrentMessageSection(currentMessage, botUserId, contentOverride) ==
    <<kTaggedBy>> \o AuthorName(currentMessage.author, botUserId) \o <<kTheirMessageIs>>
        \o replaceMentions(IF contentOverride # <<>>
                           THEN [currentMessage EXCEPT !.content = contentOverride]
                           ELSE currentMessage, botUserId)
        \o <<kPleaseRespond>> \o AuthorName(currentMessage.author, botUserId)
        \o <<kJustResponse>>

RunescapeSection(enabled) ==
    IF Truthy(enabled) THEN <<"\n", "\n", kRunescapeMode>> ELSE <<>>

PersonalitySection(personality) ==
    IF Truthy(personality)
    THEN <<"\n", "\n", kPersonalityHeader, "\n", kPersonalityRules, "\n">> \o Fence \o <<"\n">>
            \o sanitizePersonality(personality.s) \o <<"\n">> \o Fence \o <<"\n", kPersonalityEnd>>
    ELSE <<>>

\* The two reads of buildPrompt: [runescape, personality, disk, used].
PromptReads(d, df, guildId, ok1, ok2) ==
    IF guildId = NoGuild
    THEN [runescape |-> JBool(FALSE), personality |-> Undefined, disk |-> d, used |-> 0]
    ELSE [runescape |-> isFlagEnabled(d, df, guildId, kRunescape, ok1).result,
          personality |-> getServerSetting(isFlagEnabled(d, df, guildId, kRunescape, ok1).disk,
                                           df, guildId, kPersonality, Undefined, ok2).result,
          disk |-> getServerSetting(isFlagEnabled(d, df, guildId, kRunescape, ok1).disk,
                                    df, guildId, kPersonality, Undefined, ok2).disk,
          used |-> 2]

\* A buildPrompt that puts the personality before the mode augmentation.
AssemblePrompt_PersonalityFirst(currentMessage, messageHistory, botUserId, contentOverride, R) ==
    <<kSystemPrompt>> \o HistorySection(messageHistory, botUserId)
        \o CurrentMessageSection(currentMessage, botUserId, contentOverride)
        \o PersonalitySection(R.personality) \o RunescapeSection(R.runescape)

\* The return value of buildPrompt, R being what its two reads returned.
AssemblePrompt(currentMessage, messageHistory, botUserId, contentOverride, R) ==
    <<kSystemPrompt>> \o HistorySection(messageHistory, botUserId)
        \o CurrentMessageSection(currentMessage, botUserId, contentOverride)
        \o RunescapeSection(R.runescape) \o PersonalitySection(R.personality)

\* [prompt, runescape, personality, disk, used]
buildPrompt(d, df, currentMessage, messageHistory, botUserId, contentOverride, ok1, ok2) ==
    [prompt |-> AssemblePrompt(currentMessage, messageHistory, botUserId, contentOverride,
                               PromptReads(d, df, currentMessage.guild, ok1, ok2)),
     runescape |-> PromptReads(d, df, currentMessage.guild, ok1, ok2).runescape,
     personality |-> PromptReads(d, df, currentMessage.guild, ok1, ok2).personality,
     disk |-> PromptReads(d, df, currentMessage.guild, ok1, ok2).disk,
     used |-> PromptReads(d, df, currentMessage.guild, ok1, ok2).used]

(***************************************************************************)
(* flags.ts: parseFlags, one loop iteration per step.                      *)
(***************************************************************************)
wAdvanced == <<"-", "-", "a", "d", "v", "a", "n", "c", "e", "d">>
wA == <<"-", "a">>
wContextEq == <<"-", "-", "c", "o", "n", "t", "e", "x", "t", "=">>
wCEq == <<"-", "c", "=">>
wContext == <<"-", "-", "c", "o", "n", "t", "e", "x", "t">>
wC == <<"-", "c">>

\* String.prototype.split(/\s+/): the pieces between maximal whitespace runs,
\* an empty piece before a leading run and after a trailing one.
RECURSIVE SplitWs(_, _, _, _)
SplitWs(s, i, cur, acc) ==
    IF i > Len(s) THEN Append(acc, cur)
    ELSE IF IsSpace(s[i])
         THEN IF i > 1 /\ IsSpace(s[i-1]) THEN SplitWs(s, i + 1, cur, acc)
              ELSE SplitWs(s, i + 1, <<>>, Append(acc, cur))
    ELSE SplitWs(s, i + 1, Append(cur, s[i]), acc)

Split(s) == SplitWs(s, 1, <<>>, <<>>)

\* String.prototype.indexOf, plus one (0 when c does not occur).
IndexOf(s, c) ==
    IF \A i \in 1..Len(s) : s[i] # c THEN 0
    ELSE CHOOSE i \in 1..Len(s) : s[i] = c /\ \A j \in 1..(i-1) : s[j] # c

UpTo(s, c) == IF IndexOf(s, c) = 0 THEN s ELSE SubSeq(s, 1, IndexOf(s, c) - 1)

\* word.split('=')[1] for a word that holds an '='.
SecondPiece(word) == UpTo(Suffix(word, IndexOf(word, "=") + 1), "=")

\* if (!isNaN(contextValue) && contextValue > 0)
Accepted(contextValue) == ~contextValue.nan /\ contextValue.val > 0

ContextSet(f, contextValue) ==
    IF Accepted(contextValue) THEN [f EXCEPT !.context = contextValue.val] ELSE f

\* The words the messages of the model are made of.
Tokens ==
    {<<>>, wAdvanced, wA, wContext, wC,
     <<"-", "-", "c", "o", "n", "t", "e", "x", "t", "=", "5">>,
     <<"-", "c", "=", "0">>,
     <<"-", "-", "c", "o", "n", "t", "e", "x", "t", "=", "-", "3">>,
     <<"-", "c", "=", "a", "b", "c">>,
     <<"-", "-", "c", "o", "n", "t", "e", "x", "t", "=", "5", "a", "b", "c">>,
     <<"7">>, <<"5", "a", "b", "c">>, <<"a", "b", "c">>, <<"-", "-", "f", "o", "o">>}

Messages == {JoinSpace(ws) : ws \in UNION {[1..n -> Tokens] : n \in 0..MaxWords}}

\* Longer messages: a bare flag in front of a bare flag with its value.
LongMessages ==
    {JoinSpace(<<wC, wC, <<"5">>, <<"7">>>>),
     JoinSpace(<<wContext, wC, <<"5">>, <<"7">>, <<"h", "i">>>>)}

InitFlags ==
    /\ StoreInit /\ disk = NoFile
    /\ probe = NoProbe
    /\ sanitizeCall = NoSanitize
    /\ formatCall = NoFormat
    /\ reply = NoReply
    /\ handlers = NoHandlers
    /\ message \in Messages \cup LongMessages
    /\ flagsContent = <<>>
    /\ words = <<>>
    /\ pc = "split"
    /\ idx = 0
    /\ remainingWords = <<>>
    /\ finalWords = <<>>
    /\ flags = [advanced |-> FALSE, context |-> 20]
    /\ remIdx = <<>>
    /\ finIdx = <<>>

SplitWords ==
    /\ pc = "split"
    /\ words' = Split(message)
    /\ pc' = "pass1"
    /\ idx' = 1
    /\ UNCHANGED <<message, flagsContent, remainingWords, finalWords, flags, remIdx, finIdx>>

\* A first loop that drops the words that start with '--' and are no directive.
FirstPassBody_DropsUnknownFlags(word) ==
    IF word = wAdvanced \/ word = wA
    THEN /\ flags' = [flags EXCEPT !.advanced = TRUE]
         /\ UNCHANGED <<remainingWords, remIdx>>
    ELSE IF StartsWith(word, wContextEq) \/ StartsWith(word, wCEq)
    THEN /\ flags' = ContextSet(flags, parseInt(SecondPiece(word)))
         /\ UNCHANGED <<remainingWords, remIdx>>
    ELSE IF StartsWith(word, <<"-", "-">>) /\ word # wContext
    THEN UNCHANGED <<flags, remainingWords, remIdx>>
    ELSE /\ remainingWords' = Append(remainingWords, word)
         /\ remIdx' = Append(remIdx, idx)
         /\ UNCHANGED flags

\* The body of the first loop for one word.
FirstPassBody(word) ==
    IF word = wAdvanced \/ word = wA
    THEN /\ flags' = [flags EXCEPT !.advanced = TRUE]
         /\ UNCHANGED <<remainingWords, remIdx>>
    ELSE IF StartsWith(word, wContextEq) \/ StartsWith(word, wCEq)
    THEN /\ flags' = ContextSet(flags, parseInt(SecondPiece(word)))
         /\ UNCHANGED <<remainingWords, remIdx>>
    ELSE /\ remainingWords' = Append(remainingWords, word)
         /\ remIdx' = Append(remIdx, idx)
         /\ UNCHANGED flags

FirstPass ==
    /\ pc = "pass1"
    /\ IF idx > Len(words)
       THEN /\ pc' = "pass2"
            /\ idx' = 1
            /\ UNCHANGED <<flags, remainingWords, remIdx>>
       ELSE /\ FirstPassBody(words[idx])
            /\ idx' = idx + 1
            /\ UNCHANGED pc
    /\ UNCHANGED <<message, flagsContent, words, finalWords, finIdx>>

\* The second loop consumes the word after a bare --context or -c.
Consumes(i) ==
    /\ remainingWords[i] = wContext \/ remainingWords[i] = wC
    /\ i + 1 <= Len(remainingWords)
    /\ Accepted(parseInt(remainingWords[i + 1]))

SecondPass ==
    /\ pc = "pass2"
    /\ IF idx > Len(remainingWords)
       THEN /\ pc' = "join"
            /\ UNCHANGED <<idx, flags, finalWords, finIdx>>
       ELSE IF Consumes(idx)
       THEN /\ flags' = ContextSet(flags, parseInt(remainingWords[idx + 1]))
            /\ idx' = idx + 2
            /\ UNCHANGED <<pc, finalWords, finIdx>>
       ELSE /\ finalWords' = Append(finalWords, remainingWords[idx])
            /\ finIdx' = Append(finIdx, remIdx[idx])
            /\ idx' = idx + 1
            /\ UNCHANGED <<pc, flags>>
    /\ UNCHANGED <<message, flagsContent, words, remainingWords, remIdx>>

Rejoin ==
    /\ pc = "join"
    /\ flagsContent' = Trim(JoinSpace(finalWords))
    /\ pc' = "done"
    /\ UNCHANGED <<message, words, idx, remainingWords, finalWords, flags, remIdx, finIdx>>

NextFlags ==
    \/ SplitWords /\ UNCHANGED <<storeVars, callVars>>
    \/ FirstPass /\ UNCHANGED <<storeVars, callVars>>
    \/ SecondPass /\ UNCHANGED <<storeVars, callVars>>
    \/ Rejoin /\ UNCHANGED <<storeVars, callVars>>

SpecFlags == InitFlags /\ [][NextFlags]_vars

(***************************************************************************)
(* parseFlags as one call: the two loops as recursions over the words.     *)
(***************************************************************************)
\* The first loop from the words ws on: [flags, remainingWords].
RECURSIVE FirstLoop(_, _, _)
FirstLoop(ws, f, rem) ==
    IF ws = <<>> THEN [flags |-> f, remainingWords |-> rem]
    ELSE IF Head(ws) = wAdvanced \/ Head(ws) = wA
    THEN FirstLoop(Tail(ws), [f EXCEPT !.advanced = TRUE], rem)
    ELSE IF StartsWith(Head(ws), wContextEq) \/ StartsWith(Head(ws), wCEq)
    THEN FirstLoop(Tail(ws), ContextSet(f, parseInt(SecondPiece(Head(ws)))), rem)
    ELSE FirstLoop(Tail(ws), f, Append(rem, Head(ws)))

\* The second loop from index i on: [flags, finalWords].
RECURSIVE SecondLoop(_, _, _, _)
SecondLoop(rem, i, f, fin) ==
    IF i > Len(rem) THEN [flags |-> f, finalWords |-> fin]
    ELSE IF (rem[i] = wContext \/ rem[i] = wC) /\ i + 1 <= Len(rem)
            /\ Accepted(parseInt(rem[i + 1]))
    THEN SecondLoop(rem, i + 2, ContextSet(f, parseInt(rem[i + 1])), fin)
    ELSE SecondLoop(rem, i + 1, f, Append(fin, rem[i]))

AfterFirstLoop(A) == SecondLoop(A.remainingWords, 1, A.flags, <<>>)

AfterSecondLoop(B) == [flags |-> B.flags, content |-> Trim(JoinSpace(B.finalWords))]

\* [flags, content]
parseFlags(messageContent) ==
    AfterSecondLoop(AfterFirstLoop(
        FirstLoop(Split(messageContent), [advanced |-> FALSE, context |-> 20], <<>>)))

(***************************************************************************)
(* The messageCreate handler, one step per stretch of code between two     *)
(* awaits; parseFlags runs as the steps above.  One message is handled at  *)
(* a time.                                                                 *)
(***************************************************************************)
MESSAGE_HISTORY_LIMIT == 20

\* The integer n as a number value.
NumberOf(n) == Normalize(n, 0)

\* v <= 100, for a number v.
AtMost100(v) ==
    IF v.s # <<>> THEN v.n < 0
    ELSE IF v.d >= 0 THEN v.n * 10 ^ v.d <= 100
    ELSE v.n <= 100 * 10 ^ (0 - v.d)

\* ToNumber(v): null is 0, a boolean 0 or 1, undefined NaN (a string is
\* never stored under context).
ToNumber(v) ==
    IF v.t = "number" THEN v
    ELSE IF v.t = "null" THEN NumberOf(0)
    ELSE IF v.t = "boolean" THEN NumberOf(v.n)
    ELSE JNaN

\* Math.min(100, v)
MathMin100(v) ==
    IF isNaN(ToNumber(v)) THEN JNaN
    ELSE IF AtMost100(ToNumber(v)) THEN ToNumber(v) ELSE NumberOf(100)

\* Math.min(100, serverContext ?? flags.context ?? MESSAGE_HISTORY_LIMIT);
\* flags.context is always a number.
ContextLimit(serverContext, inlineContext) ==
    MathMin100(Coalesce(Coalesce(serverContext, NumberOf(inlineContext)),
                        NumberOf(MESSAGE_HISTORY_LIMIT)))

\* message.content.replace(new RegExp(`<@!?${client.user?.id}>`, 'g'), '').trim()
RawMessageContent(msg) == Trim(ReplaceAll(msg.content, UserPattern(BotId), <<>>))

\* A filter that drops every bot, the assistant included.
KeptInHistory_PeopleOnly(msg) == ~msg.author.bot

\* The filter of the fetched messages.
KeptInHistory(msg) == ~msg.author.bot \/ msg.author.id = BotId

RECURSIVE Reverse(_)
Reverse(s) == IF s = <<>> THEN <<>> ELSE Append(Reverse(Tail(s)), Head(s))

\* The limit is one the fetch accepts: an integer from 1 to 100.
IsCount(v) == IsFinite(v) /\ v.d >= 0 /\ v.n >= 1 /\ AtMost100(v)

\* What messages.fetch({limit, before}) returns from a channel whose
\* earlier messages are `channel`, newest first.
Fetched(channel, limit) ==
    SubSeq(channel, 1, IF limit.n * 10 ^ limit.d <= Len(channel)
                       THEN limit.n * 10 ^ limit.d ELSE Len(channel))

\* The people and bots of the model's channel.
Ann == [id |-> "2", bot |-> FALSE, username |-> kAnn]
Gork == [id |-> BotId, bot |-> TRUE, username |-> kGork]
Rss == [id |-> "3", bot |-> TRUE, username |-> <<"r", "s", "s">>]

Inbound(guild, author, mentioned, text) ==
    [guild |-> guild, mentioned |-> mentioned, author |-> author,
     content |-> IF mentioned THEN <<"<", "@", "1", ">", " ">> \o text ELSE text,
     users |-> IF mentioned THEN <<uGork>> ELSE <<>>, roles |-> <<>>, channels |-> <<>>]

\* The messages that arrive: the texts of the model from a person who
\* mentions the assistant, in a guild or in a direct message; a mention
\* alone; a message without a mention; a message of another bot.
InboundMessages ==
    {Inbound("g1", Ann, TRUE, text) : text \in MsgTexts}
        \cup {Inbound(NoGuild, Ann, TRUE, text) : text \in {vHello, SetFlagText(kRunescape, vTrue)}}
        \cup {Inbound("g1", Ann, TRUE, <<>>), Inbound("g1", Ann, FALSE, vHello),
              Inbound("g1", Rss, TRUE, vHello)}

\* Earlier messages of the channel, newest first.
Channels ==
    {<<>>,
     <<Inbound("g1", Ann, FALSE, <<" ", "y", "\n", "o">>), Inbound("g1", Rss, FALSE, vHi),
       Inbound("g1", Gork, FALSE, <<"h", "i", " ", "<", "@", "2", ">">>)>>}

\* The handler has returned after a reply of this kind ("none": no reply).
Replied(kind) == [NoReply EXCEPT !.kind = kind]

\* The locals of parseFlags are gone.
FlagsDropped ==
    /\ message' = <<>>
    /\ flagsContent' = <<>>
    /\ words' = <<>>
    /\ pc' = "idle"
    /\ idx' = 0
    /\ remainingWords' = <<>>
    /\ finalWords' = <<>>
    /\ flags' = [advanced |-> FALSE, context |-> 20]
    /\ remIdx' = <<>>
    /\ finIdx' = <<>>

\* Lines 252-268: up to the call of parseFlags.
MessageCreate(msg) ==
    /\ reply.stage = "idle"
    /\ (msg.guild # NoGuild /\ ~msg.author.bot /\ msg.mentioned
            /\ RawMessageContent(msg) \in SettingTexts \cup RejectedTexts) => ops < MaxOps
    /\ IF msg.author.bot \/ ~msg.mentioned
       THEN /\ reply' = Replied("none")
            /\ UNCHANGED flagVars
       ELSE IF RawMessageContent(msg) = <<>>
       THEN /\ reply' = Replied("hello")
            /\ UNCHANGED flagVars
       ELSE /\ reply' = [NoReply EXCEPT !.msg = msg, !.raw = RawMessageContent(msg),
                                        !.stage = "parseFlags"]
            /\ message' = RawMessageContent(msg)
            /\ pc' = "split"
            /\ flagsContent' = <<>>
            /\ words' = <<>>
            /\ idx' = 0
            /\ remainingWords' = <<>>
            /\ finalWords' = <<>>
            /\ flags' = [advanced |-> FALSE, context |-> 20]
            /\ remIdx' = <<>>
            /\ finIdx' = <<>>
    /\ UNCHANGED <<storeVars, probe, sanitizeCall, formatCall, handlers>>

\* The handler that goes on to the model after a handled command.
AfterParseFlags_CommandThenModel ==
    /\ reply.stage = "parseFlags"
    /\ pc = "done"
    /\ \/ /\ Step
          /\ Command(reply.msg.guild, reply.raw)
          /\ last'.resp.handled
          /\ reply' = [reply EXCEPT !.stage = "sendTyping"]
          /\ UNCHANGED flagVars
       \/ /\ ~handleServerConfigCommand(disk, dflt, reply.msg.guild, CommandTable[reply.raw],
                                        <<TRUE, TRUE, TRUE>>).resp.handled
          /\ IF flagsContent = <<>>
             THEN reply' = Replied("hello") /\ FlagsDropped
             ELSE reply' = [reply EXCEPT !.stage = "sendTyping"] /\ UNCHANGED flagVars
          /\ UNCHANGED storeVars
    /\ UNCHANGED <<probe, sanitizeCall, formatCall, handlers>>

\* Lines 271-285: the command, the empty content, the typing indicator.
AfterParseFlags ==
    /\ reply.stage = "parseFlags"
    /\ pc = "done"
    /\ \/ /\ Step
          /\ Command(reply.msg.guild, reply.raw)
          /\ last'.resp.handled
          /\ reply' = Replied("command")
          /\ FlagsDropped
       \/ /\ ~handleServerConfigCommand(disk, dflt, reply.msg.guild, CommandTable[reply.raw],
                                        <<TRUE, TRUE, TRUE>>).resp.handled
          /\ IF flagsContent = <<>>
             THEN reply' = Replied("hello") /\ FlagsDropped
             ELSE reply' = [reply EXCEPT !.stage = "sendTyping"] /\ UNCHANGED flagVars
          /\ UNCHANGED storeVars
    /\ UNCHANGED <<probe, sanitizeCall, formatCall, handlers>>

\* Lines 285-295: after the typing indicator, up to the fetch.
AfterSendTyping ==
    /\ reply.stage = "sendTyping"
    /\ \/ /\ reply' = Replied("error")
          /\ FlagsDropped
          /\ UNCHANGED storeVars
       \/ \E ok \in Outcomes :
            \E R \in {IF reply.msg.guild = NoGuild THEN [result |-> Undefined, disk |-> disk]
                      ELSE getServerSetting(disk, dflt, reply.msg.guild, kContext, Undefined, ok)} :
                /\ reply.msg.guild = NoGuild => ok
                /\ Cost(ok) <= budget
                /\ disk' = R.disk
                /\ budget' = budget - Cost(ok)
                /\ reply' = [reply EXCEPT !.stage = "fetch", !.serverContext = R.result,
                                          !.limit = ContextLimit(R.result, flags.context)]
                /\ UNCHANGED <<dflt, ops, last, abs, pinned>>
                /\ UNCHANGED flagVars
    /\ UNCHANGED <<probe, sanitizeCall, formatCall, handlers>>

\* Lines 299-320: after the fetch, up to the call of the model.
AfterFetch ==
    /\ reply.stage = "fetch"
    /\ \/ /\ reply' = Replied("error")
          /\ FlagsDropped
          /\ UNCHANGED storeVars
       \/ \E channel \in Channels, ok1 \in Outcomes, ok2 \in Outcomes :
            \E B \in {buildPrompt(disk, dflt, reply.msg,
                                  Reverse(SelectSeq(Fetched(channel, reply.limit), KeptInHistory)),
                                  BotId, flagsContent, ok1, ok2)} :
                /\ IsCount(reply.limit)
                /\ B.used = 0 => (ok1 /\ ok2)
                /\ Cost(ok1) + Cost(ok2) <= budget
                /\ disk' = B.disk
                /\ budget' = budget - Cost(ok1) - Cost(ok2)
                /\ reply' = [reply EXCEPT
                                !.stage = "generateContent",
                                !.previousMessages = Fetched(channel, reply.limit),
                                !.history = Reverse(SelectSeq(Fetched(channel, reply.limit),
                                                              KeptInHistory)),
                                !.prompt = B.prompt,
                                !.runescape = B.runescape,
                                !.personality = B.personality,
                                !.model = IF flags.advanced THEN "advanced" ELSE "regular"]
                /\ UNCHANGED <<dflt, ops, last, abs, pinned>>
                /\ UNCHANGED flagVars
    /\ UNCHANGED <<probe, sanitizeCall, formatCall, handlers>>

\* Lines 321-355: the model's text, nothing, or an error.
AfterGenerateContent ==
    /\ reply.stage = "generateContent"
    /\ \E kind \in {"text", "empty", "error"} : reply' = Replied(kind)
    /\ FlagsDropped
    /\ UNCHANGED <<storeVars, probe, sanitizeCall, formatCall, handlers>>

InitMsg == StoreInit /\ FlagsIdle

NextMsg ==
    \/ \E msg \in InboundMessages : MessageCreate(msg)
    \/ reply.stage = "parseFlags" /\ SplitWords /\ UNCHANGED <<storeVars, callVars>>
    \/ reply.stage = "parseFlags" /\ FirstPass /\ UNCHANGED <<storeVars, callVars>>
    \/ reply.stage = "parseFlags" /\ SecondPass /\ UNCHANGED <<storeVars, callVars>>
    \/ reply.stage = "parseFlags" /\ Rejoin /\ UNCHANGED <<storeVars, callVars>>
    \/ AfterParseFlags
    \/ AfterSendTyping
    \/ AfterFetch
    \/ AfterGenerateContent

SpecMsg == InitMsg /\ [][NextMsg]_vars

(***************************************************************************)
(* Several messages in flight. client.on('messageCreate', async ...) calls *)
(* the handler for each message as it arrives; a handler runs until its    *)
(* next await, and while it waits the handlers of other messages run.      *)
(* One step is the code of one handler between two awaits; parseFlags and  *)
(* handleServerConfigCommand are synchronous and are part of the step.     *)
(***************************************************************************)
ConcTexts ==
    {vHello, SetFlagText(kContext, v42), SetFlagText(kContext, <<"0">>),
     SetFlagText(kRunescape, vTrue)}

ConcMessages ==
    {Inbound("g1", Ann, TRUE, text) : text \in ConcTexts}
        \cup {Inbound("g1", Ann, TRUE, <<>>), Inbound("g1", Rss, TRUE, vHello)}

\* The messages of SpecConcLive: for the model, a command, a mention alone,
\* of another bot and of the assistant itself, without a mention, and a
\* direct message.
LiveMessages ==
    {Inbound("g1", Ann, TRUE, vHello), Inbound("g1", Ann, TRUE, SetFlagText(kRunescape, vTrue)),
     Inbound("g1", Ann, TRUE, <<>>), Inbound("g1", Rss, TRUE, vHello),
     Inbound("g1", Gork, TRUE, vHello), Inbound("g1", Ann, FALSE, vHello),
     Inbound(NoGuild, Ann, TRUE, vHello)}

\* What a read of the three settings the handler uses returns from the
\* store as it is.
View(d, df, g) ==
    [context |-> getServerSetting(d, df, g, kContext, Undefined, TRUE).result,
     runescape |-> isFlagEnabled(d, df, g, kRunescape, TRUE).result,
     personality |-> getServerSetting(d, df, g, kPersonality, Undefined, TRUE).result]

\* The handler H after the store has become (d, df).
Viewing(H, d, df) ==
    IF H.stage = "fetch" THEN [H EXCEPT !.views = @ \cup {View(d, df, H.guild)}] ELSE H

\* A handler that returns from the catch block without the apology.
Replying_ErrorsUnanswered(H, kind) ==
    [NoHandler EXCEPT !.stage = IF kind = "error" THEN "done" ELSE "reply",
                      !.raw = H.raw, !.guild = H.guild,
                      !.kind = IF kind = "error" THEN "none" ELSE kind,
                      !.at = H.at, !.bot = H.bot, !.mentioned = H.mentioned]

\* The handler H awaits message.reply (await: lines 263, 274, 280, 330-354).
Replying(H, kind) ==
    [NoHandler EXCEPT !.stage = "reply", !.raw = H.raw, !.guild = H.guild, !.kind = kind,
                      !.at = H.at, !.bot = H.bot, !.mentioned = H.mentioned]

Started(msg) ==
    [NoHandler EXCEPT !.raw = RawMessageContent(msg), !.guild = msg.guild,
                      !.bot = msg.author.bot, !.mentioned = msg.mentioned]

\* Lines 252-286: from the arrival of the message to the first await.
HandlerArrives(h, msg) ==
    /\ handlers[h].stage = "new"
    /\ \A i \in Handlers : i < h => handlers[i].stage # "new"
    /\ IF msg.author.bot \/ ~msg.mentioned
       THEN /\ handlers' = [handlers EXCEPT ![h] = [Started(msg) EXCEPT !.stage = "done"]]
            /\ UNCHANGED storeVars
       ELSE IF RawMessageContent(msg) = <<>>
       THEN /\ handlers' = [handlers EXCEPT ![h] = Replying(Started(msg), "hello")]
            /\ UNCHANGED storeVars
       ELSE \/ /\ Step
               /\ Command(msg.guild, RawMessageContent(msg))
               /\ last'.resp.handled
               /\ handlers' = [i \in Handlers |->
                                 IF i = h
                                 THEN Replying([Started(msg) EXCEPT !.at = ops'], "command")
                                 ELSE Viewing(handlers[i], disk', dflt')]
            \/ /\ ~handleServerConfigCommand(disk, dflt, msg.guild,
                                             CommandTable[RawMessageContent(msg)],
                                             <<TRUE, TRUE, TRUE>>).resp.handled
               /\ \E P \in {parseFlags(RawMessageContent(msg))} :
                     handlers' = [handlers EXCEPT ![h] =
                                     IF P.content = <<>>
                                     THEN Replying(Started(msg), "hello")
                                     ELSE [Started(msg) EXCEPT !.stage = "sendTyping",
                                                               !.context = P.flags.context,
                                                               !.advanced = P.flags.advanced]]
               /\ UNCHANGED storeVars
    /\ UNCHANGED <<flagVars, probe, sanitizeCall, formatCall, reply>>

\* Lines 287-298: after the typing indicator, up to the fetch.
HandlerAfterSendTyping(h) ==
    /\ handlers[h].stage = "sendTyping"
    /\ \/ /\ handlers' = [handlers EXCEPT ![h] = Replying(handlers[h], "error")]
          /\ UNCHANGED storeVars
       \/ \E ok \in Outcomes :
            \E R \in {IF handlers[h].guild = NoGuild THEN [result |-> Undefined, disk |-> disk]
                      ELSE getServerSetting(disk, dflt, handlers[h].guild, kContext,
                                            Undefined, ok)} :
                /\ handlers[h].guild = NoGuild => ok
                /\ disk' = R.disk
                /\ budget' = budget - Cost(ok)
                /\ handlers' = [handlers EXCEPT
                                  ![h].stage = "fetch",
                                  ![h].serverContext = R.result,
                                  ![h].limit = ContextLimit(R.result, handlers[h].context),
                                  ![h].views = {View(disk, dflt, handlers[h].guild)}]
                /\ UNCHANGED <<dflt, ops, last, abs, pinned>>
    /\ UNCHANGED <<flagVars, probe, sanitizeCall, formatCall, reply>>

\* Lines 299-324: after the fetch, up to the call of the model; the prompt
\* is made of the two settings buildPrompt reads.
HandlerAfterFetch(h) ==
    /\ handlers[h].stage = "fetch"
    /\ \/ /\ handlers' = [handlers EXCEPT ![h] = Replying(handlers[h], "error")]
          /\ UNCHANGED storeVars
       \/ \E ok1 \in Outcomes, ok2 \in Outcomes :
            \E R \in {PromptReads(disk, dflt, handlers[h].guild, ok1, ok2)} :
                /\ IsCount(handlers[h].limit)
                /\ R.used = 0 => (ok1 /\ ok2)
                /\ Cost(ok1) + Cost(ok2) <= budget
                /\ disk' = R.disk
                /\ budget' = budget - Cost(ok1) - Cost(ok2)
                /\ handlers' = [handlers EXCEPT
                                  ![h].stage = "generateContent",
                                  ![h].runescape = R.runescape,
                                  ![h].personality = R.personality]
                /\ UNCHANGED <<dflt, ops, last, abs, pinned>>
    /\ UNCHANGED <<flagVars, probe, sanitizeCall, formatCall, reply>>

\* Lines 325-355: the model has answered or failed; the reply is sent.
HandlerAfterGenerateContent(h) ==
    /\ handlers[h].stage = "generateContent"
    /\ \E kind \in {"text", "empty", "error"} :
          handlers' = [handlers EXCEPT ![h] = Replying(handlers[h], kind)]
    /\ UNCHANGED <<storeVars, flagVars, probe, sanitizeCall, formatCall, reply>>

\* The reply has been sent (or has failed): the handler returns.
HandlerAfterReply(h) ==
    /\ handlers[h].stage = "reply"
    /\ handlers' = [handlers EXCEPT ![h].stage = "done"]
    /\ UNCHANGED <<storeVars, flagVars, probe, sanitizeCall, formatCall, reply>>

NextConc ==
    \/ \E h \in Handlers, msg \in ConcMessages : HandlerArrives(h, msg)
    \/ \E h \in Handlers : HandlerAfterSendTyping(h)
    \/ \E h \in Handlers : HandlerAfterFetch(h)
    \/ \E h \in Handlers : HandlerAfterGenerateContent(h)
    \/ \E h \in Handlers : HandlerAfterReply(h)

SpecConc == InitMsg /\ [][NextConc]_vars

\* The awaited call of handler h returns or throws, and its reply is sent.
HandlerContinues(h) ==
    \/ HandlerAfterSendTyping(h)
    \/ HandlerAfterFetch(h)
    \/ HandlerAfterGenerateContent(h)
    \/ HandlerAfterReply(h)

NextLive ==
    \/ \E h \in Handlers, msg \in LiveMessages : HandlerArrives(h, msg)
    \/ \E h \in Handlers : HandlerContinues(h)

\* Messages in flight where no awaited call stays pending for ever.
SpecConcLive ==
    InitMsg /\ [][NextLive]_vars /\ \A h \in Handlers : WF_vars(HandlerContinues(h))


(***************************************************************************)
(* Claims about the store (checked under SpecStore).                       *)
(***************************************************************************)

\* What getServerSetting(g, k) returns in the current state when its read
\* of the file succeeds.
Stored(d, df, g, k) == getServerSetting(d, df, g, k, Undefined, TRUE).result

\* C1: after a setServerSetting(g, k, v) whose write succeeded, every
\* getServerSetting(g, k) returns v until (g, k) is set or removed again,
\* whatever was done to other keys and other guilds in between.
C1_GetReturnsLastSet ==
    (last.op = "get" /\ last.io /\ pinned[<<last.g, last.k>>] # Undefined)
        => last.res = pinned[<<last.g, last.k>>]

\* C2: a set or remove of (g, k) leaves the value read under every other
\* key of g and under every key of every other guild as it was, also when
\* a read or a write of the file fails during the call.
C2_SetRemoveTouchOnlyTheirEntry ==
    [][(ops' = ops + 1 /\ last'.op \in {"set", "remove"})
        => \A g \in Guilds, k \in StoreKeys :
              <<g, k>> # <<last'.g, last'.k>>
                  => Stored(disk', dflt', g, k) = Stored(disk, dflt, g, k)]_vars

\* C3: while every file access has succeeded, getServerSettings(g) is the
\* abstract map of the set and remove calls made so far: the surviving
\* keys, each with its last-set value.
C3_ListIsAbstractMap ==
    (last.op = "list" /\ budget = MaxFaults) => last.list = abs[last.g]

(***************************************************************************)
(* Claims about the commands (checked under SpecCmd).                      *)
(***************************************************************************)

\* The servers object a successful loadConfig returns in the current state.
Document(d, df) == loadConfig(d, df, TRUE).config

\* The step is a command handled by handleServerConfigCommand.
CommandStep == ops' = ops + 1

\* What a removeFlag command must do to the key it names.
RemoveReportsWhatItDid ==
    IF Stored(disk, dflt, last'.g, last'.k) # Undefined
    THEN /\ last'.resp.kind = "removed"
         /\ Stored(disk', dflt', last'.g, last'.k) = Undefined
    ELSE /\ last'.resp.kind = "wasNotSet"
         /\ Document(disk', dflt') = Document(disk, dflt)

\* C4 as stated: a removeFlag command for a key that is present deletes it
\* and answers 'Removed flag'; for a key that is absent it leaves the store
\* unchanged and answers 'was not set'.
C4_RemoveReportsWhatItDid ==
    [][(CommandStep /\ last'.op = "removeFlag") => RemoveReportsWhatItDid]_vars

\* No read or write of the file has failed so far.
NoFaultSoFar == budget = MaxFaults

\* C4 amended: the same, as long as every read and write of the file, in
\* this command and in those before it, succeeds.
C4_RemoveReportsWhatItDidWithoutFaults ==
    [][(CommandStep /\ last'.op = "removeFlag" /\ NoFaultSoFar')
        => RemoveReportsWhatItDid]_vars

\* A second removal in a guild whose only key was removed before: the
\* answer is 'was not set' and the guild's entry is still the empty one.
C4_SecondRemoveSeen ==
    /\ last.op = "removeFlag"
    /\ NoFaultSoFar
    /\ last.resp.kind = "wasNotSet"
    /\ last.g \in DOMAIN disk.servers
    /\ disk.servers[last.g] = EmptyMap

\* The type a stored value must have under key k.
WellTyped(k, v) ==
    IF k = kRunescape THEN v.t = "boolean"
    ELSE IF k = kContext THEN v.t = "number"
    ELSE IF k = kPersonality THEN v.t = "string" /\ v.s # <<>> /\ Trim(v.s) = v.s
    ELSE FALSE

\* C5: in every state reached by commands from an empty document, the value
\* stored (and read back) under runescape is a boolean, under context a
\* number, under personality a non-empty trimmed string, and no other key
\* is present.
C5_StoredValuesAreWellTyped ==
    \A g \in DOMAIN Document(disk, dflt) :
        \A k \in DOMAIN Document(disk, dflt)[g] :
            WellTyped(k, Document(disk, dflt)[g][k])

\* The reason a rejected setFlag text must be answered with: the kind of the
\* error and the name or value it quotes.
ReasonOf(content) ==
    IF content = SetFlagText(kRunescape, vMaybe) THEN <<"InvalidBoolean", vMaybe>>
    ELSE IF content = SetFlagText(kContext, vAbc) THEN <<"InvalidNumber", vAbc>>
    ELSE <<"UnknownFlag", kPersonality>>

\* C6: a setFlag command with an unregistered name or a value that fails
\* coercion is handled, answered with the error that carries the reason,
\* and leaves the file and the in-memory document exactly as they were.
C6_RejectedSetFlagChangesNothing ==
    [][(CommandStep /\ last'.content \in InvalidSetFlags \cup UnknownSetFlags)
        => /\ last'.resp.handled
           /\ <<last'.resp.kind, last'.resp.name>> = ReasonOf(last'.content)
           /\ disk' = disk
           /\ dflt' = dflt]_vars

\* A rejected setFlag for context in a guild whose context is set.
C6_RejectedWithPriorValue ==
    /\ last.content = SetFlagText(kContext, vAbc)
    /\ last.resp.kind = "InvalidNumber"
    /\ Stored(disk, dflt, last.g, kContext) = JNum(42, 0)

\* Commands that reference 'personality', which has no registry entry.
UnregisteredCommands ==
    UnknownSetFlags \cup {GetFlagText(kPersonality), RemoveFlagText(kPersonality)}

FailureKinds == {"UnknownFlag", "notSet", "wasNotSet"}

\* C7 as stated: every setFlag, getFlag and removeFlag command that names an
\* unregistered flag yields a failure response and neither reveals nor
\* changes a stored value.
C7_UnregisteredNameAlwaysFails ==
    [][(CommandStep /\ last'.content \in UnregisteredCommands)
        => /\ last'.resp.kind \in FailureKinds
           /\ last'.resp.value = Undefined
           /\ Document(disk', dflt') = Document(disk, dflt)]_vars

\* C7 amended: setFlag rejects an unregistered name and changes nothing;
\* getFlag and removeFlag do not consult the registry: getFlag answers with
\* the value stored under the name (no type annotation) or 'not set' and
\* changes no value, removeFlag deletes the key (as long as every read and
\* write of the file succeeds).
C7_OnlySetFlagChecksTheRegistry ==
    [][(CommandStep /\ last'.content \in UnregisteredCommands)
        => /\ last'.op = "setFlag"
                => /\ last'.resp.kind = "UnknownFlag"
                   /\ last'.resp.value = Undefined
                   /\ disk' = disk /\ dflt' = dflt
           /\ (last'.op = "getFlag" /\ NoFaultSoFar')
                => /\ last'.resp.value = Stored(disk, dflt, last'.g, kPersonality)
                   /\ last'.resp.kind = IF last'.resp.value = Undefined THEN "notSet" ELSE "value"
                   /\ last'.resp.type = "undefined"
                   /\ Document(disk', dflt') = Document(disk, dflt)
           /\ (last'.op = "removeFlag" /\ NoFaultSoFar') => RemoveReportsWhatItDid]_vars

\* getFlag="personality" answered with the stored personality text.
C7_PersonalityRevealed ==
    /\ NoFaultSoFar
    /\ last.content = GetFlagText(kPersonality)
    /\ last.resp.kind = "value"
    /\ last.resp.value = JStr(vBeNice)

(***************************************************************************)
(* Claims about parseFlagValue (checked under SpecCoerce).                 *)
(***************************************************************************)
ListedTrue == {<<"t", "r", "u", "e">>, <<"1">>, <<"y", "e", "s">>, <<"o", "n">>}
ListedFalse == {<<"f", "a", "l", "s", "e">>, <<"0">>, <<"n", "o">>, <<"o", "f", "f">>}

BooleanProbe == probe.flagName \in DOMAIN FLAG_TYPES /\ FLAG_TYPES[probe.flagName] = "boolean"

\* The outcome a boolean flag must give when `yes` says the raw string
\* matches a true token and `no` says it matches a false token.
BooleanOutcomeIs(yes, no) ==
    /\ probe.outcome = Returned(JBool(TRUE)) <=> yes
    /\ probe.outcome = Returned(JBool(FALSE)) <=> no
    /\ ~(yes \/ no) => (~probe.outcome.ok /\ probe.outcome.error = "InvalidBoolean")

\* C8 as stated: for a boolean flag parseFlagValue returns true exactly when
\* the raw string is, up to letter case, a listed true token, false exactly
\* when it is a listed false token, and fails for every other string.
C8_ExactlyTheListedTokens ==
    BooleanProbe
        => BooleanOutcomeIs(probe.padding = "none" /\ probe.token \in ListedTrue,
                            probe.padding = "none" /\ probe.token \in ListedFalse)

\* C8 amended: the same, with the raw string compared after its leading and
\* trailing whitespace is removed.
C8_ListedTokensAfterTrim ==
    BooleanProbe
        => BooleanOutcomeIs(probe.token \in ListedTrue, probe.token \in ListedFalse)

\* parseFlagValue("runescape", "\t YES ") has returned true.
C8_PaddedUpperYesAccepted ==
    /\ probe.flagName = kRunescape
    /\ probe.raw = <<"\t", " ", "Y", "E", "S", " ">>
    /\ probe.outcome = Returned(JBool(TRUE))

(***************************************************************************)
(* Claims about parseFlags (checked under SpecFlags).                      *)
(***************************************************************************)
\* A word of the form --context=V or -c=V, and its V.
EqForm(word) == StartsWith(word, wContextEq) \/ StartsWith(word, wCEq)
EqValue(word) ==
    IF StartsWith(word, wContextEq) THEN Suffix(word, Len(wContextEq) + 1)
    ELSE Suffix(word, Len(wCEq) + 1)

\* V is a decimal numeral of a positive integer.
IsPositiveInteger(V) ==
    /\ V # <<>>
    /\ \A i \in 1..Len(V) : IsDigit(V[i])
    /\ \E i \in 1..Len(V) : V[i] # "0"

\* C9: a word --context=V or -c=V is never kept for the content; it sets
\* flags.context to V if and only if V is a positive integer, and for every
\* other V flags.context keeps the value it had.
C9_EqualsFormSetsPositiveIntegersOnly ==
    /\ [][(pc = "pass1" /\ idx <= Len(words) /\ EqForm(words[idx]))
            => /\ remainingWords' = remainingWords
               /\ flags'.context = IF IsPositiveInteger(EqValue(words[idx]))
                                   THEN DigitsVal(EqValue(words[idx]))
                                   ELSE flags.context]_vars
    /\ [](\A i \in 1..Len(finalWords) : ~EqForm(finalWords[i]))

\* C10: when the second pass meets a bare --context or -c, it sets
\* flags.context to n and drops both words if the next word is a positive
\* integer n; otherwise flags.context is unchanged, the flag word is kept
\* and the next word is left in place.
C10_SpaceFormConsumesPositiveIntegersOnly ==
    [][(pc = "pass2" /\ idx <= Len(remainingWords)
            /\ (remainingWords[idx] = wContext \/ remainingWords[idx] = wC))
        => IF idx + 1 <= Len(remainingWords) /\ IsPositiveInteger(remainingWords[idx + 1])
           THEN /\ flags'.context = DigitsVal(remainingWords[idx + 1])
                /\ finalWords' = finalWords
                /\ idx' = idx + 2
           ELSE /\ flags' = flags
                /\ finalWords' = Append(finalWords, remainingWords[idx])
                /\ idx' = idx + 1]_vars

\* The positions of words that are kept for the content.
KeptPositions == {finIdx[i] : i \in 1..Len(finIdx)}

\* The words the first pass takes out, and the bare context flags.
IsToggle(word) == word = wAdvanced \/ word = wA
IsBareFlag(word) == word = wContext \/ word = wC
IsDirective(word) == IsToggle(word) \/ EqForm(word) \/ IsBareFlag(word)

\* A word that looks like a flag: '--' and more, or '-' and one character.
LooksLikeFlag(word) ==
    \/ StartsWith(word, <<"-", "-">>)
    \/ Len(word) = 2 /\ word[1] = "-"

\* Position j holds a bare flag that was taken out and position i the next
\* word after it that the first pass did not take out.
ConsumedPair(j, i) ==
    /\ j < i
    /\ IsBareFlag(words[j])
    /\ ~(IsToggle(words[i]) \/ EqForm(words[i]))
    /\ \A m \in (j+1)..(i-1) : IsToggle(words[m]) \/ EqForm(words[m])
    /\ j \notin KeptPositions /\ i \notin KeptPositions

\* The word at position i was taken out as a directive or as the value of one.
TakenAsDirective(i) ==
    \/ IsToggle(words[i])
    \/ EqForm(words[i])
    \/ \E k \in 1..Len(words) : ConsumedPair(i, k) \/ ConsumedPair(k, i)

NonEmptyWord(word) == word # <<>>

\* C11: the content parseFlags returns is the words of the message, in
\* their order and joined by single spaces, without the directive words and
\* the values they consumed and without anything else; a word that looks
\* like a flag but is no directive is kept and changes no flag.
C11_ContentIsWordsWithoutDirectives ==
    /\ [](pc = "done"
            => /\ \A i, j \in 1..Len(finIdx) : i < j => finIdx[i] < finIdx[j]
               /\ flagsContent = JoinSpace(SelectSeq([i \in 1..Len(finIdx) |-> words[finIdx[i]]],
                                                     NonEmptyWord))
               /\ \A i \in 1..Len(words) :
                    /\ i \notin KeptPositions => TakenAsDirective(i)
                    /\ (LooksLikeFlag(words[i]) /\ ~IsDirective(words[i]))
                          => i \in KeptPositions)
    /\ [][(pc = "pass1" /\ idx <= Len(words)
              /\ LooksLikeFlag(words[idx]) /\ ~IsDirective(words[idx]))
            => flags' = flags]_vars
    /\ [][(pc = "pass2" /\ idx <= Len(remainingWords)
              /\ LooksLikeFlag(remainingWords[idx]) /\ ~IsDirective(remainingWords[idx]))
            => flags' = flags]_vars

\* parseFlags("--foo -c 7") has returned "--foo" and context 7.
C11_UnknownFlagKept ==
    /\ pc = "done"
    /\ message = <<"-", "-", "f", "o", "o", " ", "-", "c", " ", "7">>
    /\ flagsContent = <<"-", "-", "f", "o", "o">>
    /\ flags.context = 7

(***************************************************************************)
(* Claims about the dispatch of commands (checked under SpecDispatch).     *)
(***************************************************************************)
\* C12: for a message without a guild handleServerConfigCommand returns
\* unhandled for every text, also one that matches a command pattern, and
\* accesses neither the file nor the in-memory document.
C12_NoGuildIsUnhandled ==
    [][(CommandStep /\ last'.g = NoGuild)
        => /\ ~last'.resp.handled
           /\ last'.resp = NoResp
           /\ disk' = disk /\ dflt' = dflt /\ budget' = budget]_vars

\* A setFlag text sent outside a guild, unhandled, while a guild has settings.
C12_SetFlagOutsideGuildSeen ==
    /\ last.g = NoGuild
    /\ last.content = SetFlagText(kContext, v42)
    /\ ~last.resp.handled
    /\ disk.servers # EmptyMap

\* The keys of the guilds whose stored value differs between two documents.
ChangedKeys(d1, df1, d2, df2) ==
    {p \in Guilds \X {kRunescape, kContext, kPersonality} :
        Stored(d1, df1, p[1], p[2]) # Stored(d2, df2, p[1], p[2])}

\* C13: a text that matches several patterns executes only the first
\* command in the order setFlag, getFlag, listFlags, removeFlag,
\* setPersonality, with one response, and changes at most the one key of the
\* one guild that command is about; a text that matches no pattern is
\* unhandled and leaves the store untouched.
C13_ExactlyOneCommand ==
    [][(CommandStep /\ last'.g # NoGuild)
        => /\ \A c \in SeveralCommands :
                last'.content = c.text
                    => /\ last'.op = c.op
                       /\ last'.resp.handled
                       /\ ChangedKeys(disk, dflt, disk', dflt') \subseteq {<<last'.g, c.k>>}
           /\ last'.content = vHello
                => /\ ~last'.resp.handled
                   /\ disk' = disk /\ dflt' = dflt]_vars

\* C14: a setPersonality command stores the whole remainder of the message,
\* trimmed, under 'personality' of the guild, also a remainder of several
\* lines, and a later getServerSetting returns that text.
C14_WholeRemainderStored ==
    [][(CommandStep /\ last'.g # NoGuild /\ NoFaultSoFar')
        => \A r \in Remainders :
              last'.content = PersonalityText(r)
                  => Stored(disk', dflt', last'.g, kPersonality) = JStr(Trim(r))]_vars

\* C15: a setPersonality command whose remainder is empty after trimming,
\* the bare keyword included, is handled with the empty-text error and
\* leaves the stored personality as it was; with any other remainder it
\* succeeds.
C15_OnlyEmptyTextRejected ==
    [][(CommandStep /\ last'.g # NoGuild)
        => /\ last'.content \in EmptyPersonalityTexts
                => /\ last'.resp.handled
                   /\ last'.resp.kind = "emptyPersonality"
                   /\ Stored(disk', dflt', last'.g, kPersonality)
                        = Stored(disk, dflt, last'.g, kPersonality)
           /\ (\E r \in Remainders : last'.content = PersonalityText(r))
                => last'.resp.kind = "personalitySet"]_vars

(***************************************************************************)
(* Claims about sanitizePersonality (checked under SpecSanitize).          *)
(***************************************************************************)
\* Every backslash of s starts a pair: backslash-backslash or
\* backslash-quote, and no quote stands outside such a pair.
RECURSIVE WellEscaped(_)
WellEscaped(s) ==
    IF s = <<>> THEN TRUE
    ELSE IF s[1] = "\\"
         THEN Len(s) >= 2 /\ s[2] \in {"\\", "\""} /\ WellEscaped(SubSeq(s, 3, Len(s)))
    ELSE s[1] # "\"" /\ WellEscaped(Tail(s))

Count(s, c) == Cardinality({i \in 1..Len(s) : s[i] = c})

\* C17: the text sanitizePersonality returns holds no newline, carriage
\* return or tab, no two whitespace characters in a row and none at either
\* end, and every double quote and backslash of the input is in it, each
\* preceded by an escaping backslash.
C17_SanitizedIsOneCleanLine ==
    sanitizeCall.called
        => /\ \A i \in 1..Len(sanitizeCall.result) :
                /\ sanitizeCall.result[i] \notin {"\n", "\r", "\t"}
                /\ (i > 1 /\ IsSpace(sanitizeCall.result[i]))
                        => ~IsSpace(sanitizeCall.result[i-1])
           /\ sanitizeCall.result = Trim(sanitizeCall.result)
           /\ WellEscaped(sanitizeCall.result)
           /\ Count(sanitizeCall.result, "\"") = Count(sanitizeCall.raw, "\"")
           /\ Count(sanitizeCall.result, "\\")
                = 2 * Count(sanitizeCall.raw, "\\") + Count(sanitizeCall.raw, "\"")

\* A quote, a newline and a backslash have become \" \\ on one line.
C17_QuoteNewlineBackslashSeen ==
    /\ sanitizeCall.raw = <<"\"", "\n", "\\">>
    /\ sanitizeCall.result = <<"\\", "\"", " ", "\\", "\\">>

(***************************************************************************)
(* Claims about the rendering of a message (checked under SpecFormat).     *)
(***************************************************************************)

\* The label the priority rule gives the author of the formatted message.
LabelByPriority ==
    IF formatCall.botUserId # NoUser /\ formatCall.message.author.id = formatCall.botUserId
    THEN <<"_", "Y", "O", "U", "_">>
    ELSE IF formatCall.message.author.bot
    THEN <<"B", "o", "t", " ", "(">> \o formatCall.message.author.username \o <<")">>
    ELSE formatCall.message.author.username

\* The rendered line without its label and the ': ' after it.
RenderedBody == Suffix(formatCall.result, Len(LabelByPriority) + 3)

NoMentions ==
    formatCall.message.users = <<>> /\ formatCall.message.roles = <<>>
        /\ formatCall.message.channels = <<>>

\* C19: the line formatMessage renders is '<label>: <body>', the label
\* being _YOU_ when the author's id is the assistant's id (whatever the
\* author's bot flag), else 'Bot (<name>)' when the author is flagged as a
\* bot, else the username; the body has no whitespace at its ends and,
\* for a message without mentions, is the trimmed content.
C19_LabelByPriorityBodyTrimmed ==
    formatCall.called
        => /\ StartsWith(formatCall.result, LabelByPriority \o <<":", " ">>)
           /\ RenderedBody = Trim(RenderedBody)
           /\ NoMentions => RenderedBody = Trim(formatCall.message.content)
           /\ (formatCall.message.author.id = BotId /\ formatCall.botUserId = BotId)
                => SubSeq(formatCall.result, 1, 7) = <<"_", "Y", "O", "U", "_", ":", " ">>

\* The assistant's own message, flagged as a bot's, with padded content.
C19_OwnBotMessageSeen ==
    /\ formatCall.called
    /\ formatCall.message.author = [id |-> BotId, bot |-> TRUE, username |-> kGork]
    /\ formatCall.botUserId = BotId
    /\ formatCall.message.content = <<" ", " ", "p", "a", "d", "d", "e", "d", "\n">>
    /\ formatCall.result = <<"_", "Y", "O", "U", "_", ":", " ", "p", "a", "d", "d", "e", "d">>

(***************************************************************************)
(* Claims about the handling of a message (checked under SpecMsg).         *)
(***************************************************************************)

\* The handler reads the context setting and computes the history limit.
LimitStep == reply.stage = "sendTyping" /\ reply'.stage = "fetch"

\* Word i of the message is an inline context directive with a valid value.
ValidInlineAt(i) ==
    \/ EqForm(words[i]) /\ IsPositiveInteger(EqValue(words[i]))
    \/ IsBareFlag(words[i]) /\ i < Len(words) /\ IsPositiveInteger(words[i + 1])

\* The value of the message's last valid inline directive, 20 without one.
InlineContext ==
    IF \E i \in 1..Len(words) : ValidInlineAt(i)
    THEN LET i == CHOOSE k \in 1..Len(words) :
                    ValidInlineAt(k) /\ \A m \in (k+1)..Len(words) : ~ValidInlineAt(m)
         IN  IF EqForm(words[i]) THEN DigitsVal(EqValue(words[i])) ELSE DigitsVal(words[i + 1])
    ELSE 20

\* The context setting of the message's community, Undefined without one.
CommunityContext ==
    IF reply.msg.guild = NoGuild THEN Undefined
    ELSE Stored(disk, dflt, reply.msg.guild, kContext)

\* C20: the history limit of a message is min(100, c) when the message's
\* community has a context setting c, whatever inline directive the
\* message carries; without a setting it is min(100, n) for the valid
\* inline directive n of the message, and 20 when it carries none.
C20_CommunityContextFirst ==
    [][LimitStep
        => reply'.limit = IF CommunityContext # Undefined THEN MathMin100(CommunityContext)
                          ELSE MathMin100(NumberOf(InlineContext))]_vars

\* The positions of the prompt that hold the paragraph x.
Occurs(x) == {i \in 1..Len(reply.prompt) : reply.prompt[i] = x}
PosOf(x) == CHOOSE i \in Occurs(x) : TRUE

\* The runescape setting of the message's community is true.
RunescapeOn ==
    reply.msg.guild # NoGuild /\ Stored(disk, dflt, reply.msg.guild, kRunescape) = JBool(TRUE)

\* The message's community has a personality.
PersonalityOn ==
    reply.msg.guild # NoGuild /\ Stored(disk, dflt, reply.msg.guild, kPersonality) # Undefined

\* The prompt is the system paragraph, the history, the current message,
\* the mode augmentation and the personality block, in this order and with
\* nothing after them, each of the last two present iff its gate is open.
SectionsInOrder(modeGate, personalityGate) ==
    /\ Occurs(kSystemPrompt) = {1}
    /\ Cardinality(Occurs(kTaggedBy)) = 1
    /\ Cardinality(Occurs(kJustResponse)) = 1
    /\ PosOf(kTaggedBy) < PosOf(kJustResponse)
    /\ (PosOf(kTaggedBy) = 2) <=> (reply.history = <<>>)
    /\ Occurs(kRunescapeMode) = IF modeGate THEN {PosOf(kJustResponse) + 3} ELSE {}
    /\ Occurs(kPersonalityHeader)
          = IF personalityGate
            THEN {PosOf(kJustResponse) + 3 + (IF modeGate THEN 3 ELSE 0)} ELSE {}
    /\ IF personalityGate THEN reply.prompt[Len(reply.prompt)] = kPersonalityEnd
       ELSE Len(reply.prompt) = PosOf(kJustResponse) + (IF modeGate THEN 3 ELSE 0)

\* C16 as stated: the prompt handed to the model has its sections in the
\* fixed order; the history section is empty iff the history is; the mode
\* block is there iff the community's runescape setting is true and the
\* personality block iff the community has a personality.
C16_SectionsInOrderByGates ==
    reply.stage = "generateContent" => SectionsInOrder(RunescapeOn, PersonalityOn)

\* C16 amended: the same, as long as every read and write of the settings
\* file has succeeded.
C16_SectionsInOrderByGatesWithoutFaults ==
    (reply.stage = "generateContent" /\ NoFaultSoFar)
        => SectionsInOrder(RunescapeOn, PersonalityOn)

\* runescape is true and no personality is set: the prompt has the mode
\* block and no personality block.
C16_ModeBlockOnlySeen ==
    /\ reply.stage = "generateContent"
    /\ NoFaultSoFar
    /\ RunescapeOn /\ ~PersonalityOn
    /\ reply.history # <<>>
    /\ reply.prompt[Len(reply.prompt)] = kRunescapeMode
    /\ Occurs(kPersonalityHeader) = {}

\* The positions of the prompt where three backticks start.
FencePositions ==
    {i \in 1..(Len(reply.prompt) - 2) : SubSeq(reply.prompt, i, i + 2) = Fence}

\* C18: whatever personality was stored through setPersonality, the
\* personality block of the prompt has one opening fence, right after its
\* rules, and one closing fence, right before its end marker, and neither
\* three backticks nor the end marker anywhere else.
C18_PersonalityStaysInsideItsFence ==
    (reply.stage = "generateContent" /\ Occurs(kPersonalityHeader) # {})
        => /\ FencePositions = {PosOf(kPersonalityRules) + 2, Len(reply.prompt) - 4}
           /\ Occurs(kPersonalityEnd) = {Len(reply.prompt)}

(***************************************************************************)
(* Claims about failed file accesses (checked under SpecStore).            *)
(***************************************************************************)

\* C22: a get whose read of the file fails returns the default it was
\* given (here: unset), and a list whose read fails returns the empty
\* mapping, whatever calls were made before.
C22_FailedReadSeesNoSettings ==
    /\ (last.op = "get" /\ ~last.io) => last.res = Undefined
    /\ (last.op = "list" /\ ~last.io) => last.list = EmptyMap

\* What the set or remove call that `l` records leaves behind when its read
\* has the outcome lok and its write fails.
AfterFailedWrite(d, df, l, lok) ==
    IF l.op = "set" THEN setServerSetting(d, df, l.g, l.k, l.v, lok, FALSE)
    ELSE removeServerSetting(d, df, l.g, l.k, lok, FALSE)

\* The step is a set or remove call whose write of the file fails.
WriteFails ==
    /\ ops' = ops + 1
    /\ last'.op \in {"set", "remove"}
    /\ \E lok \in BOOLEAN :
          /\ budget' = budget - Cost(lok) - 1
          /\ last'.op = "remove" => RemoveSaves(disk, dflt, last'.g, lok)
          /\ disk' = AfterFailedWrite(disk, dflt, last', lok).disk
          /\ dflt' = AfterFailedWrite(disk, dflt, last', lok).dflt

\* C23: after a set or remove whose write fails, the document on disk is
\* the one from before, and every get, whether its own read succeeds or
\* fails, returns what it would have returned before the call.
C23_FailedWriteChangesNothing ==
    [][WriteFails
        => /\ disk.exists => disk' = disk
           /\ \A g \in Guilds, k \in StoreKeys, ok \in BOOLEAN :
                getServerSetting(disk', dflt', g, k, Undefined, ok).result
                    = getServerSetting(disk, dflt, g, k, Undefined, ok).result]_vars

(***************************************************************************)
(* More claims about parseFlags (checked under SpecFlags).                 *)
(***************************************************************************)

\* The second loop stands at a bare --context or -c.
AtBareFlag ==
    /\ pc = "pass2"
    /\ idx <= Len(remainingWords)
    /\ IsBareFlag(remainingWords[idx])

\* The word of the message right after the one the second loop stands at
\* is a positive integer.
NextInTextIsInteger ==
    /\ remIdx[idx] + 1 <= Len(words)
    /\ IsPositiveInteger(words[remIdx[idx] + 1])

\* The second loop takes the bare flag and a value out in this step.
ConsumesValue == idx' = idx + 2

\* C26: a bare --context or -c consumes the word that immediately follows
\* it in the message, and only when that word is a positive integer;
\* otherwise nothing is consumed and flags.context is unchanged, also when
\* a positive integer comes later in the message.
C26_BareFlagConsumesAdjacentWordOnly ==
    [][AtBareFlag
        => IF NextInTextIsInteger
           THEN /\ ConsumesValue
                /\ remIdx[idx + 1] = remIdx[idx] + 1
                /\ flags'.context = DigitsVal(words[remIdx[idx] + 1])
           ELSE /\ ~ConsumesValue
                /\ flags' = flags
                /\ finalWords' = Append(finalWords, remainingWords[idx])]_vars

\* C27: parsing the content that parseFlags returned once more returns the
\* same content and sets no flag: advanced stays false and context 20.
C27_ParsingTheContentAgainChangesNothing ==
    pc = "done"
        => parseFlags(flagsContent)
              = [flags |-> [advanced |-> FALSE, context |-> 20], content |-> flagsContent]

(***************************************************************************)
(* More claims about the messageCreate handler (checked under SpecMsg).    *)
(***************************************************************************)
\* C21: the number of history messages the handler asks for is always an
\* integer from 1 to 100, whatever the message's inline flags and whatever
\* context value a setFlag command stored for the community.
C21_ContextLimitFromOneToHundred ==
    reply.stage = "fetch" => IsCount(reply.limit)

\* The command result of the message in hand.
CommandResultOf(d, df) ==
    handleServerConfigCommand(d, df, reply.msg.guild, CommandTable[reply.raw],
                              <<TRUE, TRUE, TRUE>>).resp

CommandHandled == reply.stage # "idle" /\ CommandResultOf(disk, dflt).handled

\* The stages in which the handler waits for the typing indicator, the
\* history or the model.
ExternalStages == {"sendTyping", "fetch", "generateContent"}

\* C25: when the command result of a message is handled, the handler returns
\* after one reply with the command's response and never reaches the typing
\* indicator, the fetch of history, the prompt or the model; a handler in
\* one of those stages has an unhandled command result.
C25_HandledCommandEndsTheHandler ==
    [][/\ (reply.stage = "parseFlags" /\ pc = "done" /\ CommandHandled)
            => /\ reply' = Replied("command")
               /\ last'.resp.handled
               /\ last'.content = reply.raw
       /\ reply'.kind = "command" => (reply.stage = "parseFlags" /\ CommandHandled)
       /\ reply'.stage \in ExternalStages => ~CommandResultOf(disk, dflt).handled]_vars

\* A setting command has been answered with the command's response.
C25_CommandAnswered ==
    /\ reply.kind = "command"
    /\ last.resp.handled
    /\ last.content \in SettingTexts

\* The history section of the prompt: what stands between the system
\* prompt and the section of the current message.
HistoryPart == SubSeq(reply.prompt, 2, PosOf(kTaggedBy) - 1)

\* The fetched messages that are no other bot's.
NoOtherBots == SelectSeq(reply.previousMessages, LAMBDA m : ~m.author.bot \/ m.author.id = BotId)

RECURSIVE EachOnItsLine(_)
EachOnItsLine(ls) ==
    IF ls = <<>> THEN <<>> ELSE Head(ls) \o <<"\n">> \o EachOnItsLine(Tail(ls))

\* The number of lines of text in the history section, whose last line is
\* followed by an empty line.
HistoryTextLines ==
    IF HistoryPart = <<>> THEN 0
    ELSE Cardinality({i \in 1..Len(HistoryPart) : HistoryPart[i] = "\n"}) - 1

HistoryIsTheFetchedInOrder ==
    /\ Len(reply.history) = Len(NoOtherBots)
    /\ \A i \in 1..Len(reply.history) : reply.history[i] = NoOtherBots[Len(NoOtherBots) + 1 - i]
    /\ Len(reply.history) <= reply.limit.n * 10 ^ reply.limit.d

\* C28 (as stated): the history section has one line per history message,
\* oldest first, and no more lines than the context limit of the message;
\* messages of other bots are left out, the assistant's own are kept.
C28_OneLinePerHistoryMessage ==
    reply.stage = "generateContent"
        => /\ HistoryIsTheFetchedInOrder
           /\ HistoryTextLines = Len(reply.history)
           /\ HistoryTextLines <= reply.limit.n * 10 ^ reply.limit.d

\* C28 (amended): the history section is the rendered entries 'label: body'
\* of the history messages, oldest first, each ended by a line feed, and an
\* empty line after the last; there are no more entries than the context
\* limit of the message; messages of other bots are left out, the
\* assistant's own are kept. An entry has as many lines as its body.
C28_OneEntryPerHistoryMessage ==
    reply.stage = "generateContent"
        => /\ HistoryIsTheFetchedInOrder
           /\ HistoryPart
                = IF reply.history = <<>> THEN <<>>
                  ELSE EachOnItsLine([i \in 1..Len(reply.history)
                                         |-> formatMessage(reply.history[i], BotId)])
                          \o <<"\n">>

\* Three messages were fetched, one of another bot and one of the
\* assistant; the history has the assistant's and the person's.
C28_OtherBotLeftOut ==
    /\ reply.stage = "generateContent"
    /\ Len(reply.previousMessages) = 3
    /\ Len(reply.history) = 2
    /\ reply.history[1].author.id = BotId

(***************************************************************************)
(* Claims about messages in flight together (checked under SpecConc).      *)
(***************************************************************************)
\* The step makes an external call for handler h: the typing indicator,
\* the fetch of history, the model call or a reply.
MakesExternalCall(h) ==
    /\ handlers'[h].stage \in {"sendTyping", "fetch", "generateContent", "reply"}
    /\ handlers'[h].stage # handlers[h].stage

\* C24: no external call is made for a message while the handler of a
\* message that arrived earlier has not returned.
C24_EarlierMessageCompletesFirst ==
    [][\A h \in Handlers :
          MakesExternalCall(h) => \A i \in Handlers : i < h => handlers[i].stage = "done"]_vars

\* Handler h has executed a setFlag command; its key and its value.
Ran(h) == handlers[h].kind = "command"
KeyOf(h) == CommandTable[handlers[h].raw].flagName
ValueOf(h) == CommandTable[handlers[h].raw].parsed.value

\* No command on the key of h was executed after the command of h.
RanLastOnItsKey(h) ==
    /\ Ran(h)
    /\ \A j \in Handlers : (Ran(j) /\ KeyOf(j) = KeyOf(h)) => handlers[j].at <= handlers[h].at

\* The value a read of key k of the community of h returns from (d, df).
StoredFor(h, d, df, k) == getServerSetting(d, df, handlers[h].guild, k, Undefined, TRUE).result

\* The step executes the command of handler h.
ExecutesCommand(h) == handlers[h].stage = "new" /\ handlers'[h].kind = "command"

\* C29: whatever the interleaving of the handlers, no command loses the
\* update of another: a key that holds the value of the last command on it
\* keeps that value when a command sets a different key of the community,
\* and a command on the same key leaves its own value (or, when its write
\* failed, the value that was there).
C29_NoUpdateLost ==
    [][\A h \in Handlers :
          ExecutesCommand(h)
            => /\ \A j \in Handlers :
                    (/\ RanLastOnItsKey(j)
                     /\ KeyOf(j) # CommandTable[handlers'[h].raw].flagName
                     /\ StoredFor(j, disk, dflt, KeyOf(j)) = ValueOf(j))
                        => StoredFor(j, disk', dflt', KeyOf(j)) = ValueOf(j)
               /\ getServerSetting(disk', dflt', handlers'[h].guild,
                                   CommandTable[handlers'[h].raw].flagName, Undefined, TRUE).result
                     \in {CommandTable[handlers'[h].raw].parsed.value,
                          getServerSetting(disk, dflt, handlers'[h].guild,
                                           CommandTable[handlers'[h].raw].flagName,
                                           Undefined, TRUE).result}]_vars

\* C30: the context setting, the runescape setting and the personality a
\* handler answers from are the settings of one state the store was in
\* between its read of the context setting and its reads for the prompt;
\* stated for the runs in which no access to the file has failed.
C30_AnsweredFromOneSnapshot ==
    \A h \in Handlers :
        (handlers[h].stage = "generateContent" /\ NoFaultSoFar)
            => [context |-> handlers[h].serverContext,
                runescape |-> handlers[h].runescape,
                personality |-> handlers[h].personality] \in handlers[h].views

(***************************************************************************)
(* Claims about the replies (checked under SpecConcLive).                  *)
(***************************************************************************)
\* The handler of a message of a person who mentions the assistant.
ToBeAnswered(h) ==
    handlers[h].stage # "new" /\ ~handlers[h].bot /\ handlers[h].mentioned

\* The reply of handler h has been sent.
Answered(h) ==
    /\ handlers[h].stage = "done"
    /\ handlers[h].kind \in {"hello", "command", "text", "empty", "error"}

\* The step is the arrival of a message of a bot at handler h.
BotMessageArrives(h) ==
    handlers[h].stage = "new" /\ handlers'[h].stage # "new" /\ handlers'[h].bot

\* C31: when every awaited call returns or throws and replies are sent,
\* every message of a person that mentions the assistant is answered in
\* the end (greeting, command response, the model's text, the notice of an
\* empty response or the apology); the message of a bot, the assistant
\* included, changes nothing in the store and its handler returns at once
\* without a reply and without a call of the model.
C31_EveryMentionAnswered ==
    /\ \A h \in Handlers : ToBeAnswered(h) ~> Answered(h)
    /\ [][\A h \in Handlers :
             BotMessageArrives(h)
                => /\ handlers'[h].stage = "done"
                   /\ handlers'[h].kind = "none"
                   /\ UNCHANGED storeVars]_vars
    /\ [](\A h \in Handlers :
             handlers[h].bot => handlers[h].stage = "done" /\ handlers[h].kind = "none")

\* A message was answered with the apology after a failed call, another
\* with the model's text, and a bot's message was left unanswered.
C31_ApologyAndTextSent ==
    \E h, i, j \in Handlers :
        /\ Answered(h) /\ handlers[h].kind = "error" /\ ToBeAnswered(h)
        /\ Answered(i) /\ handlers[i].kind = "text" /\ ToBeAnswered(i)
        /\ handlers[j].bot /\ handlers[j].stage = "done"

====
